---- MODULE Spec2Model ----
(***************************************************************************)
(* System Health Management core of hello-halo: the persistent process    *)
(* registry (instance ids, orphan detection, clean-exit flag), the error   *)
(* counters of the event listener, the recovery strategy selector and the  *)
(* recovery executor with its cooldown / attempt cap and consent gate.     *)
(*                                                                         *)
(* Strings of the program that are only compared for equality are TLA+     *)
(* strings; the source strings handed to selectRecoveryStrategy, which are *)
(* searched for substrings, are sequences of characters.                   *)
(* Instance ids are the values 1, 2, ... in the order randomUUID() mints   *)
(* them; 0 stands for the initial '' / undefined of the module variables.  *)
(* The registry fields `version` (always 1) and `startedAt`, and the       *)
(* entry field `startedAt`, are written once and never read by any         *)
(* operation; they are left out of the records.                            *)
(* Of a health event the type, category and source are kept; its           *)
(* timestamp, message and data are left out.                               *)
(***************************************************************************)
EXTENDS Integers, Sequences, FiniteSets, TLC

\* ------------------------------------------------------------------ bounds
MaxLaunches == 3        \* number of launches (markInstanceStart calls) explored
MaxProcs    == 2        \* longest process list explored
MaxTicks    == 14       \* the clock runs from StartTime to StartTime + MaxTicks * TickMs
TickMs      == 10000    \* granularity of the clock, ms
StartTime   == 100000   \* Date.now() when the first process starts, ms
MaxErrors   == 3        \* highest error count a counter is driven to
MaxRecoveryTicks == 4   \* the recovery runs end at StartTime + MaxRecoveryTicks * TickMs
MaxRecoveryLaunches == 2 \* launches in the recovery runs
MaxFaultLaunches == 2   \* launches in the runs on a failing disk
MaxCalls    == 4        \* highest value recentRecoveryAttempts is driven to
MaxEvents   == 2        \* events emitted per launch in the recovery runs
MaxHandlers == 3        \* most handlers registered at a time
MaxEntries  == 2        \* entries of executeRecoveryWithUI followed within one call
MaxMarkers  == 1        \* marked events held in the buffer in the runs that fill it
MaxCount    == 12       \* highest errorCount handed to selectRecoveryStrategy

\* ------------------------------------------------------- registry inputs
\* the (id, type) pairs the callers register
ProcKeys == {<<"conv1", "v2-session">>, <<"conv1", "tunnel">>, <<"conv2", "v2-session">>}
NullPid  == 0
Pids     == {4242}

\* '' of `let currentInstanceId: string = ''`
EmptyInstanceId == 0
\* undefined of `let previousInstanceId: string | undefined`
UndefinedInstanceId == 0

VARIABLES
  \* ---- the file ~/.halo/.health-registry.json and the disk it lives on
  file,                 \* [kind: "absent" | "corrupt" | "json", reg: <<>> or <<registry>>]
  haloDirExists,        \* does the directory of the file exist
  diskWritable,         \* do writeFileSync and mkdirSync succeed
  diskReadable,         \* does readFileSync succeed on a file that exists
  \* ---- module state of registry.ts (lost when the process ends)
  currentInstanceId,
  previousInstanceId,
  registryCache,        \* <<>> is null, <<registry>> otherwise
  \* ---- the process and its clock
  phase,                \* "boot": markInstanceStart not yet called in this process
  uuidCounter,          \* ids minted so far by randomUUID
  now,                  \* Date.now(), ms
  \* ---- module state of the recovery executor
  recentRecoveryAttempts,
  lastRecoveryTime,
  closeAllSessionsFn,   \* has injectSessionCleanup been called
  relaunchTimer,        \* is the setTimeout that relaunches the app pending
  \* ---- module state of the event listener
  errorCounters,        \* source -> [count, lastTime]; count 0 is "no counter"
  recentEvents,         \* newest first
  eventHandlers,        \* the handlers registered by onHealthEvent, in order
  \* ---- module state of the recovery dialogs
  suppressDialogs,      \* has the user asked for no more dialogs in this session
  lastDialogTime,       \* when the recovery dialog was last shown, ms; 0 before
  uiLog,                \* what the last executeRecoveryWithUI call asked the user
  uiEntries,            \* the strategies that call entered executeRecoveryWithUI with, in order
  uiNotice,             \* the result notification that call showed: "none" | "success" | "failed"
  \* ---- history kept for the properties
  bodyLog,              \* the steps the last executeRecovery call performed
  admitLog,             \* when the last strategy bodies were entered (at most 3)
  handlerLog,           \* the handler calls made by the last emitHealthEvent, in order
  trackLog,             \* source -> the last times trackError was called since its counter was made
  ret,                  \* last call and what it returned
  minted,               \* every id returned by markInstanceStart, in order
  exitMark,             \* what this run did: "unstarted" | "started" | "clean"
  prevExit,             \* exitMark of the previous run, "none" on first launch
  roundTrip             \* a registerProcess and the unregisterProcess that follows it

regVars   == <<file, currentInstanceId, previousInstanceId, registryCache>>
envVars   == <<haloDirExists, diskWritable, diskReadable, phase, uuidCounter, now>>
ghostVars == <<ret, minted, exitMark, prevExit, roundTrip>>
recVars   == <<recentRecoveryAttempts, lastRecoveryTime, closeAllSessionsFn, relaunchTimer>>
evtVars   == <<errorCounters, recentEvents, eventHandlers>>
logVars   == <<bodyLog, admitLog, trackLog, handlerLog>>
uiVars    == <<suppressDialogs, lastDialogTime, uiLog, uiEntries, uiNotice>>
healthVars == <<recVars, evtVars, logVars, uiVars>>
vars      == <<regVars, envVars, ghostVars, healthVars>>

\* ------------------------------------------------------------ return values
NoRet == [op |-> "none", id |-> 0, bool |-> FALSE, threw |-> FALSE,
          arg |-> <<>>, num |-> 0, msg |-> "", data |-> <<>>]
RetId(o, i)   == [NoRet EXCEPT !.op = o, !.id = i]
RetBool(o, b) == [NoRet EXCEPT !.op = o, !.bool = b]
RetThrow(o)   == [NoRet EXCEPT !.op = o, !.threw = TRUE]

\* no dialog asked for: the strategy requested, whether a dialog was
\* presented, and the answer the user gave to it
NoDialog == [requested |-> "none", presented |-> FALSE, answer |-> "none"]

NoTrip == [stage |-> "idle", key |-> <<>>, before |-> <<>>]

\* ------------------------------------------------------------ sequences
Range(seq) == {seq[i] : i \in 1..Len(seq)}

\* Array.prototype.filter with the predicate "instanceId = inst" (keep = TRUE)
\* or "instanceId # inst" (keep = FALSE)
FilterByInstance(procs, inst, keep) ==
  SelectSeq(procs, LAMBDA p : (p.instanceId = inst) = keep)

\* a mutant of FindIndex: the type is not compared
FindIndexIgnoresType(procs, id, type) ==
  IF \E i \in 1..Len(procs) : procs[i].id = id
  THEN CHOOSE i \in 1..Len(procs) :
         /\ procs[i].id = id
         /\ \A j \in 1..(i-1) : procs[j].id # id
  ELSE 0

\* Array.prototype.findIndex(p => p.id === id && p.type === type), 1-based; 0 is -1
FindIndex(procs, id, type) ==
  IF \E i \in 1..Len(procs) : procs[i].id = id /\ procs[i].type = type
  THEN CHOOSE i \in 1..Len(procs) :
         /\ procs[i].id = id /\ procs[i].type = type
         /\ \A j \in 1..(i-1) : ~(procs[j].id = id /\ procs[j].type = type)
  ELSE 0

\* Array.prototype.splice(index, 1)
Splice(procs, i) == SubSeq(procs, 1, i-1) \o SubSeq(procs, i+1, Len(procs))

\* ------------------------------------------------------------ the file
AbsentFile    == [kind |-> "absent",  reg |-> <<>>]
CorruptFile   == [kind |-> "corrupt", reg |-> <<>>]
JsonFile(reg) == [kind |-> "json",    reg |-> <<reg>>]

\* existsSync + readFileSync + JSON.parse: <<registry>> or <<>> when the file
\* is missing, the read throws or the parse throws
ReadFile == IF file.kind = "json" /\ diskReadable THEN file.reg ELSE <<>>

\* a mutant of WriteFile: the document written lacks the clean-exit flag
WriteFileDropsFlag(reg) ==
  IF diskWritable THEN JsonFile([reg EXCEPT !.lastCleanExit = FALSE]) ELSE file

\* writeFileSync(registryPath, JSON.stringify(registry)): the new file
WriteFile(reg) == IF diskWritable THEN JsonFile(reg) ELSE file

\* a mutant of randomUUID: the generator repeats the value it gave last
randomUUIDRepeats == IF uuidCounter = 0 THEN 1 ELSE uuidCounter

\* crypto.randomUUID(): a value no earlier call returned
randomUUID == uuidCounter + 1

\* a mutant of NewRegistry: the previous processes are not carried over
NewRegistryDropsProcesses(uuid, prevId, prevRegistry) ==
  [ instanceId |-> uuid, previousInstanceId |-> prevId,
    lastCleanExit |-> FALSE, processes |-> <<>> ]

\* a mutant of NewRegistry: the flag of the previous registry is carried over
NewRegistryKeepsFlag(uuid, prevId, prevRegistry) ==
  [ instanceId |-> uuid, previousInstanceId |-> prevId,
    lastCleanExit |-> IF prevRegistry = <<>> THEN FALSE ELSE prevRegistry[1].lastCleanExit,
    processes |-> IF prevRegistry = <<>> THEN <<>> ELSE prevRegistry[1].processes ]

\* a mutant of NewRegistry: a registry made without a previous one counts as clean
NewRegistryCleanWhenFresh(uuid, prevId, prevRegistry) ==
  [ instanceId |-> uuid, previousInstanceId |-> prevId,
    lastCleanExit |-> (prevRegistry = <<>>),
    processes |-> IF prevRegistry = <<>> THEN <<>> ELSE prevRegistry[1].processes ]

\* a mutant of NewRegistry: the previous instance id is not recorded
NewRegistryNoPrevious(uuid, prevId, prevRegistry) ==
  [ instanceId |-> uuid, previousInstanceId |-> UndefinedInstanceId,
    lastCleanExit |-> FALSE,
    processes |-> IF prevRegistry = <<>> THEN <<>> ELSE prevRegistry[1].processes ]

\* the registry object literal built by markInstanceStart
NewRegistry(uuid, prevId, prevRegistry) ==
  [ instanceId         |-> uuid,
    previousInstanceId |-> prevId,
    lastCleanExit      |-> FALSE,
    processes          |-> IF prevRegistry = <<>> THEN <<>> ELSE prevRegistry[1].processes ]

\* loadRegistry(): the cache if set, else the parsed file (which becomes the cache)
loadRegistry == IF registryCache # <<>> THEN registryCache ELSE ReadFile

\* saveRegistry(registry): the file after the write attempt.  The registry
\* handed in is the cached object itself, mutated in place, so the cache
\* holds the new value whether or not the write succeeds.
saveRegistry(reg) == WriteFile(reg)

\* a mutant of registerProcess: the entry is always pushed
registerProcessAlwaysPushes(registry, entry) ==
  [registry EXCEPT !.processes = Append(registry.processes, entry)]

\* registerProcess: the registry after the find-or-insert
registerProcess(registry, entry) ==
  LET existingIndex == FindIndex(registry.processes, entry.id, entry.type)
  IN [registry EXCEPT !.processes =
        IF existingIndex >= 1
        THEN [registry.processes EXCEPT ![existingIndex] = entry]
        ELSE Append(registry.processes, entry)]

\* unregisterProcess: the registry after the find-and-remove
unregisterProcess(registry, id, type) ==
  LET index == FindIndex(registry.processes, id, type)
  IN IF index >= 1
     THEN [registry EXCEPT !.processes = Splice(registry.processes, index)]
     ELSE registry

\* updateHeartbeat: the registry after the find-and-touch
updateHeartbeat(registry, id, type) ==
  LET index == FindIndex(registry.processes, id, type)
  IN IF index >= 1
     THEN [registry EXCEPT !.processes[index].lastHeartbeat = now]
     ELSE registry

\* the registry after clearOrphanEntries() reassigned registry.processes
clearOrphanEntries(registry) ==
  [registry EXCEPT !.processes = FilterByInstance(registry.processes, currentInstanceId, TRUE)]

\* a mutant of markCleanExit: the flag is left as it was
markCleanExitNoFlag(registry) == registry

\* the registry after markCleanExit() set the flag
markCleanExit(registry) == [registry EXCEPT !.lastCleanExit = TRUE]

getCurrentProcesses ==
  IF loadRegistry = <<>> THEN <<>>
  ELSE FilterByInstance(loadRegistry[1].processes, currentInstanceId, TRUE)

getOrphanProcesses ==
  IF loadRegistry = <<>> THEN <<>>
  ELSE FilterByInstance(loadRegistry[1].processes, currentInstanceId, FALSE)

\* getRegistryStats(): the three counts
getRegistryStats ==
  IF loadRegistry = <<>>
  THEN [totalProcesses |-> 0, currentProcesses |-> 0, orphanProcesses |-> 0]
  ELSE LET currentCount ==
             Len(FilterByInstance(loadRegistry[1].processes, currentInstanceId, TRUE))
       IN [totalProcesses   |-> Len(loadRegistry[1].processes),
           currentProcesses |-> currentCount,
           orphanProcesses  |-> Len(loadRegistry[1].processes) - currentCount]

\* a mutant of wasLastExitClean: the flag of the file is returned as it is
wasLastExitCleanFromFlag ==
  IF file.kind = "absent" THEN TRUE
  ELSE IF file.kind = "corrupt" \/ ~diskReadable THEN TRUE
  ELSE file.reg[1].lastCleanExit

\* wasLastExitClean(): the flag of the file, unless the file is this launch's
wasLastExitClean ==
  IF file.kind = "absent" THEN TRUE
  ELSE IF file.kind = "corrupt" \/ ~diskReadable THEN TRUE
  ELSE IF file.reg[1].instanceId = currentInstanceId THEN TRUE
  ELSE file.reg[1].lastCleanExit

\* ------------------------------------------------------------ event listener
MAX_RECENT_EVENTS == 50
COUNTER_RESET_MS  == 60000

\* the sources whose errors are counted
Sources == {"agent:conv1", "agent:conv2"}

NoCounter  == [count |-> 0, lastTime |-> 0]
NoCounters == [src \in Sources |-> NoCounter]

\* a mutant of CounterExpired: a gap of exactly the window already resets
CounterExpiredAtWindow(counter, t) == t - counter.lastTime >= COUNTER_RESET_MS

\* trackError: `now - counter.lastTime > COUNTER_RESET_MS`
CounterExpired(counter, t) == t - counter.lastTime > COUNTER_RESET_MS

\* trackError(source): the counter after the call
trackError(counter, t) ==
  IF counter.count > 0
  THEN IF CounterExpired(counter, t)
       THEN [count |-> 1, lastTime |-> t]
       ELSE [count |-> counter.count + 1, lastTime |-> t]
  ELSE [count |-> 1, lastTime |-> t]

\* the event object built by emitHealthEvent
HealthEvent(type, category, source) ==
  [type |-> type, category |-> category, source |-> source]

\* the event emitRecoverySuccess(strategyId, message) emits
RecoverySuccessEvent(strategyId) == HealthEvent("recovery_success", "info", strategyId)

\* the handlers registered in the runs; one of them throws on every event
Handlers == {"h1", "h2", "h3"}
ThrowingHandlers == {"h2"}

\* a mutant of Deliveries: the loop ends at the first handler that throws
DeliveriesUntilThrow(handlers, event, visible) ==
  LET stop == IF \E i \in 1..Len(handlers) : handlers[i] \in ThrowingHandlers
              THEN CHOOSE i \in 1..Len(handlers) :
                     /\ handlers[i] \in ThrowingHandlers
                     /\ \A j \in 1..(i-1) : handlers[j] \notin ThrowingHandlers
              ELSE Len(handlers)
  IN [i \in 1..stop |-> [handler |-> handlers[i], event |-> event,
                          seen |-> (visible # <<>> /\ visible[1] = event),
                          threw |-> handlers[i] \in ThrowingHandlers]]

\* emitHealthEvent: the calls `handler(event)` of the loop over eventHandlers,
\* each inside its own try / catch; `visible` is what getRecentEvents() would
\* return to a handler, `seen` whether the event heads it
Deliveries(handlers, event, visible) ==
  [i \in 1..Len(handlers) |-> [handler |-> handlers[i], event |-> event,
                                seen |-> (visible # <<>> /\ visible[1] = event),
                                threw |-> handlers[i] \in ThrowingHandlers]]

\* Array.prototype.indexOf, 1-based; 0 is -1
IndexOf(handlers, handler) ==
  IF \E i \in 1..Len(handlers) : handlers[i] = handler
  THEN CHOOSE i \in 1..Len(handlers) :
         /\ handlers[i] = handler
         /\ \A j \in 1..(i-1) : handlers[j] # handler
  ELSE 0

\* emitHealthEvent: `for (const handler of eventHandlers)` over the live array,
\* when the handlers in `leavers` call their unsubscribe function while they
\* are invoked.  The iterator reads the array at its next index after every
\* call, so a splice moves the entries behind it one place forward.
RECURSIVE DispatchFrom(_, _, _, _, _)
DispatchFrom(handlers, index, event, visible, leavers) ==
  IF index > Len(handlers) THEN [calls |-> <<>>, handlers |-> handlers]
  ELSE LET handler == handlers[index]
           call    == [handler |-> handler, event |-> event,
                       seen |-> (visible # <<>> /\ visible[1] = event),
                       threw |-> handler \in ThrowingHandlers]
           after   == IF handler \in leavers
                      THEN SubSeq(handlers, 1, IndexOf(handlers, handler) - 1)
                           \o SubSeq(handlers, IndexOf(handlers, handler) + 1,
                                     Len(handlers))
                      ELSE handlers
           rest    == DispatchFrom(after, index + 1, event, visible, leavers)
       IN [calls |-> <<call>> \o rest.calls, handlers |-> rest.handlers]

\* a mutant of emitHealthEvent: over the limit, the event before the oldest
\* one is dropped
emitHealthEventDropsOther(events, event) ==
  LET grown == <<event>> \o events
  IN IF Len(grown) > MAX_RECENT_EVENTS
     THEN Splice(grown, Len(grown) - 1)
     ELSE grown

\* getRecentEvents(): a copy of the buffer
getRecentEvents(events) == [i \in 1..Len(events) |-> events[i]]

\* emitHealthEvent: recentEvents after unshift and the pop that keeps 50; of an
\* event the type, category and source are kept
emitHealthEvent(events, event) ==
  LET grown == <<event>> \o events
  IN IF Len(grown) > MAX_RECENT_EVENTS THEN SubSeq(grown, 1, Len(grown) - 1) ELSE grown

\* a mutant of BufferAtDelivery: the handlers run before the event is recorded
BufferBeforeRecord(events, event) == events

\* emitHealthEvent: the buffer at the time the handlers are called, which is
\* after the unshift / pop
BufferAtDelivery(events, event) == emitHealthEvent(events, event)

\* the conversations whose agent errors are emitted
ConversationIds == {"conv1", "conv2"}

\* emitAgentError: the template string `agent:${conversationId}`
AgentSource(conversationId) ==
  CASE conversationId = "conv1" -> "agent:conv1"
    [] conversationId = "conv2" -> "agent:conv2"

\* a mutant of AgentCategory: critical from the second error on
AgentCategoryEarly(count) == IF count >= 2 THEN "critical" ELSE "warning"

\* emitAgentError: `count >= 3 ? 'critical' : 'warning'`
AgentCategory(count) == IF count >= 3 THEN "critical" ELSE "warning"

\* ------------------------------------------------------------ strategies
StrategyIds == {"S1", "S2", "S3", "S4"}

\* a mutant of requiresConsent: every strategy asks for consent
requiresConsentEveryStrategy(strategyId) == strategyId \in StrategyIds

\* RECOVERY_STRATEGIES[id].requiresConsent
requiresConsent(strategyId) == strategyId \in {"S3", "S4"}

AGENT_RESET == 3
APP_RESTART == 5

\* String.prototype.includes on strings held as sequences of characters
Includes(str, pat) ==
  \E i \in 0..(Len(str) - Len(pat)) : SubSeq(str, i + 1, i + Len(pat)) = pat

StrAgent   == <<"a", "g", "e", "n", "t">>
StrSession == <<"s", "e", "s", "s", "i", "o", "n">>

\* the source strings handed to selectRecoveryStrategy
SelectSources ==
  { StrAgent \o <<":", "c", "o", "n", "v", "1">>,   \* "agent:conv1"
    StrSession \o <<"-", "7">>,               \* "session-7"
    <<"v", "2", "-">> \o StrSession,          \* "v2-session"
    <<"n", "e", "t", ":", "a", "p", "i">>,    \* "net:api"
    <<"r", "e", "n", "d", "e", "r", "e", "r">>,
    <<"a", "g", "e", "n">>,                   \* "agen"
    <<"A", "g", "e", "n", "t">>,              \* "Agent"
    <<"s", "e", "s", "s", "i", "o", "n", "a", "g", "e", "n", "t">>,
    <<>> }

\* a mutant of selectRecoveryStrategy: the S2 test has lost its upper limit
\* and comes first
selectRecoveryStrategyNoUpper(errorCount, source) ==
  IF errorCount >= AGENT_RESET /\ (Includes(source, StrAgent) \/ Includes(source, StrSession))
  THEN "S2"
  ELSE IF errorCount >= APP_RESTART THEN "S3" ELSE "null"

\* selectRecoveryStrategy(errorCount, source); "null" is null
selectRecoveryStrategy(errorCount, source) ==
  IF /\ errorCount >= AGENT_RESET /\ errorCount < APP_RESTART
     /\ (Includes(source, StrAgent) \/ Includes(source, StrSession))
  THEN "S2"
  ELSE IF errorCount >= APP_RESTART THEN "S3" ELSE "null"

\* ------------------------------------------------------------ executor
RECOVERY_COOLDOWN_MS  == 30000
MAX_RECOVERY_ATTEMPTS == 3

\* a mutant of InCooldown: the cooldown is half as long
InCooldownHalved(t) == t - lastRecoveryTime < RECOVERY_COOLDOWN_MS \div 2

\* executeRecovery: `now - lastRecoveryTime < RECOVERY_COOLDOWN_MS`
InCooldown(t) == t - lastRecoveryTime < RECOVERY_COOLDOWN_MS

\* a mutant of attemptsAfter: the count never restarts
attemptsAfterNeverRestarts(t) == recentRecoveryAttempts + 1

\* executeRecovery: recentRecoveryAttempts after the cooldown check
attemptsAfter(t) == IF InCooldown(t) THEN recentRecoveryAttempts + 1 ELSE 1

\* a mutant of rateLimited: the cap is one higher
rateLimitedEarly(t) == InCooldown(t) /\ attemptsAfter(t) >= MAX_RECOVERY_ATTEMPTS

rateLimitedLate(t) == InCooldown(t) /\ attemptsAfter(t) > MAX_RECOVERY_ATTEMPTS + 1

\* executeRecovery: is the call turned away by the rate limit
rateLimited(t) == InCooldown(t) /\ attemptsAfter(t) > MAX_RECOVERY_ATTEMPTS

\* a mutant of consentMissing: the consent check is absent
consentMissingNever(strategyId, userConsented) == FALSE

\* a mutant of consentMissing: only S4 is gated
consentMissingS4Only(strategyId, userConsented) == strategyId = "S4" /\ ~userConsented

\* executeRecovery: `strategy.requiresConsent && !userConsented`
consentMissing(strategyId, userConsented) == requiresConsent(strategyId) /\ ~userConsented

\* what may go wrong inside a strategy body: the injected session cleanup
\* throws, or cleanupOrphans() rejects
Faults == {"none", "close", "cleanup"}

\* The steps a strategy body performs, in order, when `fault` strikes; a step
\* that throws is the last one and is recorded with a "!" in front.
closeStepsSkipped(fault) == <<>>

closeSteps(fault) ==
  IF ~closeAllSessionsFn THEN <<>>
  ELSE IF fault = "close" THEN <<"!closeAllSessions">> ELSE <<"closeAllSessions">>

cleanupSteps(fault) ==
  IF fault = "cleanup" THEN <<"!cleanupOrphans">> ELSE <<"cleanupOrphans">>

\* clearOrphanEntries() in a body: it throws when the registry it loads has no
\* list of processes to filter
clearSteps(fault) ==
  IF fault = "clear" THEN <<"!clearOrphanEntries">> ELSE <<"clearOrphanEntries">>

Threw(steps) ==
  steps # <<>> /\ steps[Len(steps)] \in {"!closeAllSessions", "!cleanupOrphans",
                                         "!clearOrphanEntries"}

\* a mutant of Then: the body goes on after a step that threw
ThenRegardless(steps, more) == steps \o more

\* steps `more` follow `steps` unless `steps` ended in a throw
Then(steps, more) == IF Threw(steps) THEN steps ELSE steps \o more

BodySteps(strategyId, fault) ==
  CASE strategyId = "S1" -> <<"emitRecoverySuccess">>
    [] strategyId = "S2" ->
         Then(Then(closeSteps(fault), cleanupSteps(fault)),
              <<"resetErrorCounter", "emitRecoverySuccess">>)
    [] strategyId = "S3" ->
         Then(Then(<<"markCleanExit">> \o closeSteps(fault), clearSteps(fault)),
              <<"emitRecoverySuccess", "setTimeout">>)
    [] strategyId = "S4" ->
         Then(Then(Then(closeSteps(fault), cleanupSteps(fault)), clearSteps(fault)),
              <<"emitRecoverySuccess", "setTimeout">>)

Did(steps, step) == \E i \in 1..Len(steps) : steps[i] = step

FailureMessage(strategyId) ==
  CASE strategyId = "S2" -> "Reset failed"
    [] strategyId = "S3" -> "Restart failed"
    [] strategyId = "S4" -> "Factory reset failed"
    [] OTHER -> "Recovery failed"

\* the registry after the registry steps among `steps`
RegistryAfter(registry, steps) ==
  LET r1 == IF Did(steps, "markCleanExit") THEN markCleanExit(registry) ELSE registry
  IN IF Did(steps, "clearOrphanEntries") THEN clearOrphanEntries(r1) ELSE r1

\* does one of the registry steps among `steps` call saveRegistry
RegistrySaved(registry, steps) ==
  \/ Did(steps, "markCleanExit")
  \/ /\ Did(steps, "clearOrphanEntries")
     /\ Len(clearOrphanEntries(registry).processes) < Len(registry.processes)

\* the last n elements of a log
LastN(log, n) == IF Len(log) > n THEN SubSeq(log, Len(log) - n + 1, Len(log)) ELSE log

\* the last (at most three) times a strategy body was entered
Last3(log) == LastN(log, 3)

\* --------------------------------------------------------------- Init
\* the first launch after installation: no registry file yet
Init ==
  /\ file = AbsentFile
  /\ haloDirExists \in BOOLEAN
  /\ diskWritable = TRUE
  /\ diskReadable = TRUE
  /\ currentInstanceId = EmptyInstanceId
  /\ previousInstanceId = UndefinedInstanceId
  /\ registryCache = <<>>
  /\ phase = "boot"
  /\ uuidCounter = 0
  /\ now = StartTime
  /\ ret = NoRet
  /\ minted = <<>>
  /\ exitMark = "unstarted"
  /\ prevExit = "none"
  /\ roundTrip = NoTrip
  /\ recentRecoveryAttempts = 0
  /\ lastRecoveryTime = 0
  /\ closeAllSessionsFn = FALSE
  /\ relaunchTimer = FALSE
  /\ errorCounters = NoCounters
  /\ recentEvents = <<>>
  /\ eventHandlers = <<>>
  /\ suppressDialogs = FALSE
  /\ lastDialogTime = 0
  /\ uiLog = NoDialog
  /\ uiEntries = <<>>
  /\ uiNotice = "none"
  /\ handlerLog = <<>>
  /\ bodyLog = <<>>
  /\ admitLog = <<>>
  /\ trackLog = [src \in Sources |-> <<>>]

\* ------------------------------------------------------------ actions
\* markInstanceStart(), called once per launch at startup
MarkInstanceStart ==
  /\ UNCHANGED healthVars
  /\ phase = "boot"
  /\ uuidCounter < MaxLaunches
  /\ LET uuid     == randomUUID
         prevReg  == ReadFile
         prevId   == IF prevReg # <<>> THEN prevReg[1].instanceId ELSE previousInstanceId
         registry == NewRegistry(uuid, prevId, prevReg)
     IN /\ currentInstanceId' = uuid
        /\ previousInstanceId' = prevId
        /\ uuidCounter' = uuidCounter + 1
        /\ minted' = Append(minted, uuid)
        /\ IF ~haloDirExists /\ ~diskWritable
           THEN \* mkdirSync throws, outside of any try
                /\ ret' = RetThrow("markInstanceStart")
                /\ UNCHANGED <<file, registryCache, haloDirExists>>
           ELSE /\ haloDirExists' = TRUE
                /\ file' = WriteFile(registry)
                /\ registryCache' = IF diskWritable THEN <<registry>> ELSE registryCache
                /\ ret' = RetId("markInstanceStart", uuid)
  /\ phase' = "running"
  /\ exitMark' = "started"
  /\ roundTrip' = NoTrip
  /\ UNCHANGED <<diskWritable, diskReadable, now, prevExit>>

\* registerProcess(entry); the caller stamps the entry with the running instance
RegisterProcess(id, type, pid) ==
  /\ UNCHANGED healthVars
  /\ phase = "running"
  /\ LET loaded == loadRegistry IN
     IF loaded = <<>>
     THEN /\ UNCHANGED <<file, registryCache>>
          /\ roundTrip' = [stage |-> "registered", key |-> <<id, type>>, before |-> <<>>]
     ELSE LET newEntry == [id |-> id, type |-> type, pid |-> pid,
                           instanceId |-> currentInstanceId, lastHeartbeat |-> now]
              mutated == registerProcess(loaded[1], newEntry)
          IN /\ Len(mutated.processes) <= MaxProcs
             /\ file' = saveRegistry(mutated)
             /\ registryCache' = <<mutated>>
             /\ roundTrip' = [stage |-> "registered", key |-> <<id, type>>,
                              before |-> loaded[1].processes]
  /\ ret' = NoRet
  /\ UNCHANGED <<currentInstanceId, previousInstanceId, envVars, minted, exitMark, prevExit>>

\* unregisterProcess(id, type)
UnregisterProcess(id, type) ==
  /\ UNCHANGED healthVars
  /\ phase = "running"
  /\ LET loaded == loadRegistry IN
     IF loaded = <<>>
     THEN UNCHANGED <<file, registryCache>>
     ELSE LET mutated == unregisterProcess(loaded[1], id, type)
          IN /\ registryCache' = <<mutated>>
             /\ file' = IF FindIndex(loaded[1].processes, id, type) >= 1
                        THEN saveRegistry(mutated) ELSE file
  /\ roundTrip' = IF roundTrip.stage = "registered" /\ roundTrip.key = <<id, type>>
                  THEN [roundTrip EXCEPT !.stage = "done"] ELSE NoTrip
  /\ ret' = NoRet
  /\ UNCHANGED <<currentInstanceId, previousInstanceId, envVars, minted, exitMark, prevExit>>

\* updateHeartbeat(id, type)
UpdateHeartbeat(id, type) ==
  /\ UNCHANGED healthVars
  /\ phase = "running"
  /\ LET loaded == loadRegistry IN
     IF loaded = <<>>
     THEN UNCHANGED <<file, registryCache>>
     ELSE LET mutated == updateHeartbeat(loaded[1], id, type)
          IN /\ registryCache' = <<mutated>>
             /\ file' = IF FindIndex(loaded[1].processes, id, type) >= 1
                        THEN saveRegistry(mutated) ELSE file
  /\ ret' = NoRet
  /\ roundTrip' = NoTrip
  /\ UNCHANGED <<currentInstanceId, previousInstanceId, envVars, minted, exitMark, prevExit>>

\* getCurrentProcesses(): loadRegistry() fills the cache as a side effect
GetCurrentProcesses ==
  /\ UNCHANGED healthVars
  /\ registryCache' = loadRegistry
  /\ ret' = NoRet
  /\ roundTrip' = NoTrip
  /\ UNCHANGED <<file, currentInstanceId, previousInstanceId, envVars, minted, exitMark, prevExit>>

\* getOrphanProcesses()
GetOrphanProcesses ==
  /\ UNCHANGED healthVars
  /\ registryCache' = loadRegistry
  /\ ret' = NoRet
  /\ roundTrip' = NoTrip
  /\ UNCHANGED <<file, currentInstanceId, previousInstanceId, envVars, minted, exitMark, prevExit>>

\* getRegistryStats()
GetRegistryStats ==
  /\ UNCHANGED healthVars
  /\ registryCache' = loadRegistry
  /\ ret' = [NoRet EXCEPT !.op = "getRegistryStats", !.num = getRegistryStats.totalProcesses]
  /\ roundTrip' = NoTrip
  /\ UNCHANGED <<file, currentInstanceId, previousInstanceId, envVars, minted, exitMark, prevExit>>

\* clearOrphanEntries()
ClearOrphanEntries ==
  /\ UNCHANGED healthVars
  /\ phase = "running"
  /\ LET loaded == loadRegistry IN
     IF loaded = <<>>
     THEN UNCHANGED <<file, registryCache>>
     ELSE LET originalCount == Len(loaded[1].processes)
              mutated == clearOrphanEntries(loaded[1])
          IN /\ registryCache' = <<mutated>>
             /\ file' = IF Len(mutated.processes) < originalCount
                        THEN saveRegistry(mutated) ELSE file
  /\ ret' = NoRet
  /\ roundTrip' = NoTrip
  /\ UNCHANGED <<currentInstanceId, previousInstanceId, envVars, minted, exitMark, prevExit>>

\* markCleanExit()
MarkCleanExit ==
  /\ UNCHANGED healthVars
  /\ phase = "running"
  /\ LET loaded == loadRegistry IN
     IF loaded = <<>>
     THEN UNCHANGED <<file, registryCache>>
     ELSE /\ file' = saveRegistry(markCleanExit(loaded[1]))
          /\ registryCache' = <<markCleanExit(loaded[1])>>
  /\ ret' = NoRet
  /\ roundTrip' = NoTrip
  /\ exitMark' = "clean"
  /\ UNCHANGED <<currentInstanceId, previousInstanceId, envVars, minted, prevExit>>

\* wasLastExitClean(): reads the file, never the cache
WasLastExitClean ==
  /\ UNCHANGED healthVars
  /\ ret' = RetBool("wasLastExitClean", wasLastExitClean)
  /\ roundTrip' = NoTrip
  /\ UNCHANGED <<regVars, envVars, minted, exitMark, prevExit>>

\* The process ends (exit, crash or forced kill) and the app is launched again,
\* later: every module variable starts over, the file stays.  A kill that lands
\* in the middle of a write leaves a file that no longer parses.
Relaunch(torn) ==
  /\ phase = "running"
  /\ uuidCounter < MaxLaunches
  /\ file' = IF torn /\ file.kind = "json" THEN CorruptFile ELSE file
  /\ currentInstanceId' = EmptyInstanceId
  /\ previousInstanceId' = UndefinedInstanceId
  /\ registryCache' = <<>>
  /\ phase' = "boot"
  /\ now' = now + TickMs
  /\ prevExit' = exitMark
  /\ exitMark' = "unstarted"
  /\ ret' = NoRet
  /\ roundTrip' = NoTrip
  /\ recentRecoveryAttempts' = 0
  /\ lastRecoveryTime' = 0
  /\ closeAllSessionsFn' = FALSE
  /\ relaunchTimer' = FALSE
  /\ errorCounters' = NoCounters
  /\ recentEvents' = <<>>
  /\ eventHandlers' = <<>>
  /\ suppressDialogs' = FALSE
  /\ lastDialogTime' = 0
  /\ uiLog' = NoDialog
  /\ uiEntries' = <<>>
  /\ uiNotice' = "none"
  /\ handlerLog' = <<>>
  /\ bodyLog' = <<>>
  /\ admitLog' = <<>>
  /\ trackLog' = [src \in Sources |-> <<>>]
  /\ UNCHANGED <<haloDirExists, diskWritable, diskReadable, uuidCounter, minted>>

\* the disk starts or stops refusing writes and directory creation (full,
\* read-only, permissions)
WriteFault ==
  /\ diskWritable' = ~diskWritable
  /\ ret' = NoRet
  /\ roundTrip' = NoTrip
  /\ UNCHANGED <<regVars, haloDirExists, diskReadable, phase, uuidCounter, now, minted,
                 exitMark, prevExit, healthVars>>

\* the disk starts or stops refusing reads
ReadFault ==
  /\ diskReadable' = ~diskReadable
  /\ ret' = NoRet
  /\ roundTrip' = NoTrip
  /\ UNCHANGED <<regVars, haloDirExists, diskWritable, phase, uuidCounter, now, minted,
                 exitMark, prevExit, healthVars>>

\* ------------------------------------------------------------ health actions
\* resetErrorCounter(source): errorCounters.delete(source)
resetErrorCounter(counters, source) ==
  [src \in Sources |-> IF src = source THEN NoCounter ELSE counters[src]]

\* getErrorCount(source): counter?.count ?? 0
getErrorCount(counters, source) == counters[source].count

\* a mutant of clearErrorCounters: emitRecoverySuccess leaves the counters alone
keepErrorCounters(counters) == counters

\* emitRecoverySuccess: errorCounters.clear()
clearErrorCounters(counters) == NoCounters

\* getTotalErrorCount(): the sum of the counts of all sources
RECURSIVE SumCounts(_, _)
SumCounts(counters, sources) ==
  IF sources = {} THEN 0
  ELSE LET src == CHOOSE s \in sources : TRUE
       IN counters[src].count + SumCounts(counters, sources \ {src})

getTotalErrorCount(counters) == SumCounts(counters, Sources)

\* a mutant of CountersAfter: only the strategy's own reset counts, the success
\* event clears nothing
CountersAfterOwnResetOnly(counters, steps) ==
  IF Did(steps, "resetErrorCounter") THEN resetErrorCounter(counters, "agent") ELSE counters

\* the error counters after the steps of a strategy body: resetErrorCounter('agent')
\* deletes the key 'agent', emitRecoverySuccess clears the map
CountersAfter(counters, steps) ==
  LET c1 == IF Did(steps, "resetErrorCounter")
            THEN resetErrorCounter(counters, "agent") ELSE counters
  IN IF Did(steps, "emitRecoverySuccess") THEN clearErrorCounters(c1) ELSE c1

\* trackError(source)
TrackError(source) ==
  /\ errorCounters[source].count < MaxErrors
  /\ errorCounters' = [errorCounters EXCEPT ![source] = trackError(@, now)]
  /\ ret' = [NoRet EXCEPT !.op = "trackError", !.arg = <<source>>,
                          !.num = trackError(errorCounters[source], now).count]
  /\ trackLog' = [trackLog EXCEPT ![source] = LastN(Append(@, now), MaxErrors)]
  /\ roundTrip' = NoTrip
  /\ UNCHANGED <<regVars, envVars, minted, exitMark, prevExit, recVars, uiVars, recentEvents,
                 eventHandlers, handlerLog, bodyLog, admitLog>>

\* resetErrorCounter(source)
ResetErrorCounter(source) ==
  /\ errorCounters' = resetErrorCounter(errorCounters, source)
  /\ trackLog' = [trackLog EXCEPT ![source] = <<>>]
  /\ ret' = NoRet
  /\ roundTrip' = NoTrip
  /\ UNCHANGED <<regVars, envVars, minted, exitMark, prevExit, recVars, uiVars, recentEvents,
                 eventHandlers, handlerLog, bodyLog, admitLog>>

\* onHealthEvent(handler): eventHandlers.push(handler)
OnHealthEvent(handler) ==
  /\ Len(eventHandlers) < MaxHandlers
  /\ eventHandlers' = Append(eventHandlers, handler)
  /\ ret' = NoRet
  /\ roundTrip' = NoTrip
  /\ UNCHANGED <<regVars, envVars, minted, exitMark, prevExit, recVars, uiVars, errorCounters,
                 recentEvents, logVars>>

\* the function returned by onHealthEvent(handler): the first registration of
\* the handler is spliced out, if there is one
Unsubscribe(handler) ==
  /\ \E i \in 1..Len(eventHandlers) : eventHandlers[i] = handler
  /\ LET index == CHOOSE i \in 1..Len(eventHandlers) :
                    /\ eventHandlers[i] = handler
                    /\ \A j \in 1..(i-1) : eventHandlers[j] # handler
     IN eventHandlers' = Splice(eventHandlers, index)
  /\ ret' = NoRet
  /\ roundTrip' = NoTrip
  /\ UNCHANGED <<regVars, envVars, minted, exitMark, prevExit, recVars, uiVars, errorCounters,
                 recentEvents, logVars>>

\* emitHealthEvent(type, category, source, message, data)
EmitHealthEvent(type, category, source) ==
  LET event == HealthEvent(type, category, source)
  IN /\ recentEvents' = emitHealthEvent(recentEvents, event)
     /\ handlerLog' = Deliveries(eventHandlers, event, BufferAtDelivery(recentEvents, event))
     /\ ret' = [NoRet EXCEPT !.op = "emitHealthEvent", !.arg = <<type, category, source>>]
     /\ roundTrip' = NoTrip
     /\ UNCHANGED <<regVars, envVars, minted, exitMark, prevExit, recVars, uiVars, errorCounters,
                    eventHandlers, bodyLog, admitLog, trackLog>>

\* emitHealthEvent(...) while the handlers in `leavers` unsubscribe themselves
\* when they are invoked
EmitWhileUnsubscribing(type, category, source, leavers) ==
  LET event    == HealthEvent(type, category, source)
      dispatch == DispatchFrom(eventHandlers, 1, event,
                               BufferAtDelivery(recentEvents, event), leavers)
  IN /\ recentEvents' = emitHealthEvent(recentEvents, event)
     /\ handlerLog' = dispatch.calls
     /\ eventHandlers' = dispatch.handlers
     /\ ret' = [NoRet EXCEPT !.op = "emitWhileUnsubscribing",
                             !.arg = <<type, category, source>>, !.data = leavers]
     /\ roundTrip' = NoTrip
     /\ UNCHANGED <<regVars, envVars, minted, exitMark, prevExit, recVars, uiVars, errorCounters,
                    bodyLog, admitLog, trackLog>>

\* clearRecentEvents(): recentEvents.length = 0
ClearRecentEvents ==
  /\ recentEvents' = <<>>
  /\ ret' = NoRet
  /\ roundTrip' = NoTrip
  /\ UNCHANGED <<regVars, envVars, minted, exitMark, prevExit, recVars, uiVars, errorCounters,
                 eventHandlers, logVars>>

\* emitAgentError(conversationId, error, data)
EmitAgentError(conversationId) ==
  LET source == AgentSource(conversationId)
      count  == trackError(errorCounters[source], now).count
      event  == HealthEvent("agent_error", AgentCategory(count), source)
  IN /\ errorCounters[source].count < MaxErrors
     /\ errorCounters' = [errorCounters EXCEPT ![source] = trackError(@, now)]
     /\ trackLog' = [trackLog EXCEPT ![source] = LastN(Append(@, now), MaxErrors)]
     /\ recentEvents' = emitHealthEvent(recentEvents, event)
     /\ handlerLog' = Deliveries(eventHandlers, event, BufferAtDelivery(recentEvents, event))
     /\ ret' = [NoRet EXCEPT !.op = "emitAgentError", !.arg = <<conversationId>>,
                             !.num = count]
     /\ roundTrip' = NoTrip
     /\ UNCHANGED <<regVars, envVars, minted, exitMark, prevExit, recVars, uiVars, eventHandlers,
                    bodyLog, admitLog>>

\* injectSessionCleanup(fn)
InjectSessionCleanup ==
  /\ phase = "running"
  /\ ~closeAllSessionsFn
  /\ closeAllSessionsFn' = TRUE
  /\ ret' = NoRet
  /\ roundTrip' = NoTrip
  /\ UNCHANGED <<regVars, envVars, minted, exitMark, prevExit, evtVars, logVars, uiVars,
                 recentRecoveryAttempts, lastRecoveryTime, relaunchTimer>>

\* the faults that can strike the body of a strategy
PossibleFaults(strategyId) ==
  {"none"} \cup (IF closeAllSessionsFn /\ strategyId # "S1" THEN {"close"} ELSE {})
           \cup (IF strategyId \in {"S2", "S4"} THEN {"cleanup"} ELSE {})
           \cup (IF strategyId \in {"S3", "S4"} THEN {"clear"} ELSE {})

\* executeRecovery(strategyId, userConsented), called directly or by
\* executeRecoveryWithUI (`op`)
RecoveryExecuted(op, strategyId, userConsented, fault) ==
  /\ phase = "running"
  /\ consentMissing(strategyId, userConsented) \/ attemptsAfter(now) <= MaxCalls
  /\ roundTrip' = NoTrip
  /\ UNCHANGED <<currentInstanceId, previousInstanceId, envVars, minted, prevExit,
                 closeAllSessionsFn, eventHandlers>>
  /\ IF consentMissing(strategyId, userConsented)
     THEN /\ fault = "none"
          /\ ret' = [NoRet EXCEPT !.op = op, !.arg = <<strategyId, userConsented>>,
                                  !.bool = FALSE, !.msg = "User consent required"]
          /\ bodyLog' = <<>>
          /\ UNCHANGED <<file, registryCache, exitMark, errorCounters, recentEvents,
                         admitLog, trackLog, handlerLog,
                         recentRecoveryAttempts, lastRecoveryTime, relaunchTimer>>
     ELSE IF rateLimited(now)
     THEN /\ fault = "none"
          /\ recentRecoveryAttempts' = attemptsAfter(now)
          /\ ret' = [NoRet EXCEPT !.op = op, !.arg = <<strategyId, userConsented>>,
                                  !.bool = FALSE, !.msg = "Recovery rate limit exceeded"]
          /\ bodyLog' = <<>>
          /\ UNCHANGED <<file, registryCache, exitMark, errorCounters, recentEvents,
                         admitLog, trackLog, handlerLog,
                         lastRecoveryTime, relaunchTimer>>
     ELSE LET steps  == BodySteps(strategyId, fault)
              loaded == loadRegistry
              usesRegistry == Did(steps, "markCleanExit") \/ Did(steps, "clearOrphanEntries")
          IN /\ fault \in PossibleFaults(strategyId)
             /\ Did(steps, "emitRecoverySuccess") => Len(recentEvents) < MaxEvents
             /\ recentRecoveryAttempts' = attemptsAfter(now)
             /\ lastRecoveryTime' = now
             /\ bodyLog' = steps
             /\ admitLog' = Last3(Append(admitLog, now))
             /\ IF usesRegistry /\ loaded # <<>>
                THEN /\ registryCache' = <<RegistryAfter(loaded[1], steps)>>
                     /\ file' = IF RegistrySaved(loaded[1], steps)
                                THEN saveRegistry(RegistryAfter(loaded[1], steps)) ELSE file
                ELSE UNCHANGED <<file, registryCache>>
             /\ exitMark' = IF Did(steps, "markCleanExit") THEN "clean" ELSE exitMark
             /\ IF Did(steps, "emitRecoverySuccess")
                THEN /\ recentEvents' = emitHealthEvent(recentEvents,
                                                        RecoverySuccessEvent(strategyId))
                     /\ handlerLog' = Deliveries(eventHandlers,
                                                  RecoverySuccessEvent(strategyId),
                                                  BufferAtDelivery(recentEvents,
                                                    RecoverySuccessEvent(strategyId)))
                     /\ errorCounters' = CountersAfter(errorCounters, steps)
                     /\ trackLog' = [src \in Sources |->
                                      IF getErrorCount(errorCounters', src) = 0
                                      THEN <<>> ELSE trackLog[src]]
                ELSE UNCHANGED <<recentEvents, errorCounters, trackLog, handlerLog>>
             /\ relaunchTimer' = (relaunchTimer \/ Did(steps, "setTimeout"))
             /\ ret' = [NoRet EXCEPT !.op = op,
                                     !.arg = <<strategyId, userConsented>>,
                                     !.bool = ~Threw(steps),
                                     !.msg = IF Threw(steps) THEN FailureMessage(strategyId)
                                             ELSE "ok"]

\* executeRecovery(strategyId, userConsented)
ExecuteRecovery(strategyId, userConsented, fault) ==
  /\ RecoveryExecuted("executeRecovery", strategyId, userConsented, fault)
  /\ UNCHANGED uiVars

\* a mutant of canRecover: the cap itself still allows a recovery
canRecoverAtCap(t) ==
  IF InCooldown(t) THEN recentRecoveryAttempts <= MAX_RECOVERY_ATTEMPTS ELSE TRUE

\* canRecover() at time t
canRecover(t) ==
  IF InCooldown(t) THEN recentRecoveryAttempts < MAX_RECOVERY_ATTEMPTS ELSE TRUE

CanRecover ==
  /\ phase = "running"
  /\ ret' = RetBool("canRecover", canRecover(now))
  /\ roundTrip' = NoTrip
  /\ UNCHANGED <<regVars, envVars, minted, exitMark, prevExit, healthVars>>

\* ------------------------------------------------------------ dialogs
DIALOG_COOLDOWN_MS == 10000

\* what dialog.showMessageBox can give back: the index of the button chosen,
\* or -1 when it rejects
Responses == -1..2

\* buildDialogButtons(strategyId).actions
buildDialogButtons(strategyId) ==
  CASE strategyId = "S3" -> <<"restart", "tryFix", "ignore">>
    [] strategyId = "S4" -> <<"factoryReset", "restart", "ignore">>
    [] OTHER -> <<"tryFix", "ignore">>

\* showRecoveryDialog: `buttons.actions[result.response] || 'ignore'`
ButtonAction(actions, response) ==
  IF response >= 0 /\ response < Len(actions) THEN actions[response + 1] ELSE "ignore"

\* a mutant of showRecoveryDialog: the time is stamped before the cooldown check
showRecoveryDialogStampsFirst(dialogs, suggestedStrategy, response, checkboxChecked) ==
  IF dialogs.suppress
  THEN [presented |-> FALSE, action |-> "ignore",
        suppress |-> dialogs.suppress, lastTime |-> dialogs.lastTime]
  ELSE IF now - dialogs.lastTime < DIALOG_COOLDOWN_MS
  THEN [presented |-> FALSE, action |-> "ignore",
        suppress |-> dialogs.suppress, lastTime |-> now]
  ELSE IF response = -1
  THEN [presented |-> FALSE, action |-> "ignore",
        suppress |-> dialogs.suppress, lastTime |-> now]
  ELSE [presented |-> TRUE,
        action |-> ButtonAction(buildDialogButtons(suggestedStrategy), response),
        suppress |-> checkboxChecked, lastTime |-> now]

\* showRecoveryDialog(options) when the module state is `dialogs`: the
\* action returned, whether the dialog was presented, and suppressDialogs and
\* lastDialogTime afterwards
showRecoveryDialog(dialogs, suggestedStrategy, response, checkboxChecked) ==
  IF dialogs.suppress \/ now - dialogs.lastTime < DIALOG_COOLDOWN_MS
  THEN [presented |-> FALSE, action |-> "ignore",
        suppress |-> dialogs.suppress, lastTime |-> dialogs.lastTime]
  ELSE IF response = -1
  THEN [presented |-> FALSE, action |-> "ignore",
        suppress |-> dialogs.suppress, lastTime |-> now]
  ELSE [presented |-> TRUE,
        action |-> ButtonAction(buildDialogButtons(suggestedStrategy), response),
        suppress |-> checkboxChecked, lastTime |-> now]

\* showFactoryResetDialog -> showConfirmationDialog: `result.response === 0`,
\* false when the dialog rejects; neither suppression nor cooldown is consulted
showFactoryResetDialog(response) ==
  [presented |-> response # -1, confirmed |-> response = 0]

\* a mutant of StrategyOfAction: ignoring the dialog counts as choosing to restart
StrategyOfActionIgnoreRestarts(action) ==
  CASE action = "tryFix" -> "S2"
    [] action = "restart" -> "S3"
    [] action = "factoryReset" -> "S4"
    [] OTHER -> "S3"

\* requestRecoveryConsent: the switch from the user's action to a strategy,
\* "none" for null
StrategyOfAction(action) ==
  CASE action = "tryFix" -> "S2"
    [] action = "restart" -> "S3"
    [] action = "factoryReset" -> "S4"
    [] OTHER -> "none"

\* requestRecoveryConsent(suggestedStrategy): null without a dialog when
\* dialogs are suppressed, else the strategy of the action of the dialog
requestRecoveryConsent(dialogs, suggestedStrategy, response, checkboxChecked) ==
  LET shown == showRecoveryDialog(dialogs, suggestedStrategy, response, checkboxChecked)
  IN [shown EXCEPT !.action = StrategyOfAction(shown.action)]

\* a mutant of ResultNotification: no notification at all after S3 and S4
ResultNotificationNotForRestarts(strategyId, success) ==
  IF strategyId = "S3" \/ strategyId = "S4" THEN "none"
  ELSE IF success THEN "success" ELSE "failed"

\* executeRecoveryWithUI: the notification shown for the result of
\* executeRecovery(strategyId, true)
ResultNotification(strategyId, success) ==
  IF success
  THEN IF strategyId # "S3" /\ strategyId # "S4" THEN "success" ELSE "none"
  ELSE "failed"

\* The decisions of executeRecoveryWithUI(strategyId) before it calls
\* executeRecovery, the calls it makes to itself included.  `responses[n]` is
\* the user's answer to the dialog of the n-th entry, `entered` the strategies
\* of the entries so far.  The result names the strategy to execute ("none"
\* with the message of the failure returned), the dialogs asked and the
\* module state of the dialogs afterwards; `cut` tells that entry number
\* MaxEntries asked to re-enter once more, where the evaluation stops with
\* that further entry at the end of `entered`.
RECURSIVE executeRecoveryWithUI(_, _, _, _, _)
executeRecoveryWithUI(strategyId, responses, checkboxChecked, dialogs, entered) ==
  LET chain    == Append(entered, strategyId)
      response == responses[Len(chain)]
  IN IF requiresConsent(strategyId) /\ strategyId = "S4"
     THEN LET answer == showFactoryResetDialog(response)
          IN [entered |-> chain, dialogs |-> dialogs, cut |-> FALSE,
              asked |-> <<[presented |-> answer.presented,
                           answer |-> IF ~answer.presented THEN "none"
                                      ELSE IF answer.confirmed THEN "confirm"
                                      ELSE "cancel"]>>,
              execute |-> IF answer.confirmed THEN strategyId ELSE "none",
              message |-> "User cancelled factory reset"]
     ELSE IF requiresConsent(strategyId)
     THEN LET consent == requestRecoveryConsent(dialogs, strategyId, response,
                                                checkboxChecked)
              chosenStrategy == consent.action
              after == [suppress |-> consent.suppress, lastTime |-> consent.lastTime]
              asked == <<[presented |-> consent.presented,
                          answer |-> IF consent.presented
                                     THEN ButtonAction(buildDialogButtons(strategyId),
                                                       response)
                                     ELSE "none"]>>
          IN IF chosenStrategy = "none"
             THEN [entered |-> chain, dialogs |-> after, cut |-> FALSE, asked |-> asked,
                   execute |-> "none", message |-> "User chose to ignore"]
             ELSE IF chosenStrategy # strategyId
             THEN IF Len(chain) >= MaxEntries
                  THEN [entered |-> Append(chain, chosenStrategy), dialogs |-> after,
                        cut |-> TRUE,
                        asked |-> asked, execute |-> "none", message |-> "cut"]
                  ELSE LET inner == executeRecoveryWithUI(chosenStrategy, responses,
                                                          checkboxChecked, after, chain)
                       IN [inner EXCEPT !.asked = asked \o inner.asked]
             ELSE [entered |-> chain, dialogs |-> after, cut |-> FALSE, asked |-> asked,
                   execute |-> strategyId, message |-> ""]
     ELSE [entered |-> chain, dialogs |-> dialogs, cut |-> FALSE, asked |-> <<>>,
           execute |-> strategyId, message |-> ""]

\* executeRecoveryWithUI returns a failure without calling executeRecovery
NotExecuted(strategyId, message) ==
  /\ phase = "running"
  /\ ret' = [NoRet EXCEPT !.op = "executeRecoveryWithUI", !.arg = <<strategyId, FALSE>>,
                          !.bool = FALSE, !.msg = message]
  /\ bodyLog' = <<>>
  /\ roundTrip' = NoTrip
  /\ UNCHANGED <<regVars, envVars, minted, exitMark, prevExit, recVars, evtVars,
                 admitLog, trackLog, handlerLog>>

\* executeRecoveryWithUI(strategyId, errorMessage); the user answers the dialog
\* of the n-th entry with `responses[n]` and `checkboxChecked`.  The
\* notification shown after the execution changes no module state.
ExecuteRecoveryWithUI(strategyId, responses, checkboxChecked, fault) ==
  LET run  == executeRecoveryWithUI(strategyId, responses, checkboxChecked,
                                    [suppress |-> suppressDialogs,
                                     lastTime |-> lastDialogTime], <<>>)
      last == run.entered[Len(run.entered)]
  IN /\ uiEntries' = run.entered
     /\ uiLog' = IF run.asked = <<>>
                 THEN [requested |-> strategyId, presented |-> FALSE, answer |-> "none"]
                 ELSE [requested |-> strategyId,
                       presented |-> run.asked[Len(run.asked)].presented,
                       answer |-> run.asked[Len(run.asked)].answer]
     /\ suppressDialogs' = run.dialogs.suppress
     /\ lastDialogTime' = run.dialogs.lastTime
     /\ IF run.execute = "none"
        THEN /\ fault = "none"
             /\ NotExecuted(last, run.message)
             /\ uiNotice' = "none"
        ELSE /\ RecoveryExecuted("executeRecoveryWithUI", run.execute, TRUE, fault)
             /\ uiNotice' = ResultNotification(run.execute, ret'.bool)

\* showRecoveryDialog(options), called on its own
ShowRecoveryDialog(suggestedStrategy, response, checkboxChecked) ==
  LET shown == showRecoveryDialog([suppress |-> suppressDialogs,
                                   lastTime |-> lastDialogTime],
                                  suggestedStrategy, response, checkboxChecked)
  IN /\ phase = "running"
     /\ suppressDialogs' = shown.suppress
     /\ lastDialogTime' = shown.lastTime
     /\ uiLog' = [requested |-> suggestedStrategy, presented |-> shown.presented,
                  answer |-> shown.action]
     /\ ret' = [NoRet EXCEPT !.op = "showRecoveryDialog",
                             !.arg = <<suggestedStrategy, response, checkboxChecked>>,
                             !.bool = shown.presented, !.msg = shown.action]
     /\ roundTrip' = NoTrip
     /\ UNCHANGED <<regVars, envVars, minted, exitMark, prevExit, recVars, evtVars, logVars,
                    uiEntries, uiNotice>>

\* suppressAllDialogs()
SuppressAllDialogs ==
  /\ ~suppressDialogs
  /\ suppressDialogs' = TRUE
  /\ ret' = NoRet
  /\ roundTrip' = NoTrip
  /\ UNCHANGED <<regVars, envVars, minted, exitMark, prevExit, recVars, evtVars, logVars,
                 lastDialogTime, uiLog, uiEntries, uiNotice>>

\* resetDialogSuppression()
ResetDialogSuppression ==
  /\ suppressDialogs
  /\ suppressDialogs' = FALSE
  /\ ret' = NoRet
  /\ roundTrip' = NoTrip
  /\ UNCHANGED <<regVars, envVars, minted, exitMark, prevExit, recVars, evtVars, logVars,
                 lastDialogTime, uiLog, uiEntries, uiNotice>>

\* the timer set by S3 / S4 fires: app.relaunch(); app.exit(0)
RelaunchTimerFires ==
  /\ relaunchTimer
  /\ uuidCounter < MaxRecoveryLaunches
  /\ Relaunch(FALSE)

\* Date.now() moves on by d ms; a pending relaunch (500 ms) comes first
Tick(d) ==
  /\ ~relaunchTimer
  /\ now + d <= StartTime + MaxTicks * TickMs
  /\ now' = now + d
  /\ UNCHANGED <<regVars, haloDirExists, diskWritable, diskReadable, phase, uuidCounter, ghostVars,
                 healthVars>>

\* the session of this launch registers itself as soon as the app has started
SessionStarts(pid) ==
  /\ ret.op = "markInstanceStart"
  /\ RegisterProcess("conv1", "v2-session", pid)

\* the clock of the recovery runs
RecoveryTick(d) ==
  /\ now + d <= StartTime + MaxRecoveryTicks * TickMs
  /\ Tick(d)

\* selectRecoveryStrategy(errorCount, source)
SelectRecoveryStrategy(errorCount, source) ==
  /\ ret' = [NoRet EXCEPT !.op = "selectRecoveryStrategy", !.num = errorCount,
                          !.arg = source, !.msg = selectRecoveryStrategy(errorCount, source)]
  /\ UNCHANGED <<regVars, envVars, minted, exitMark, prevExit, roundTrip, healthVars>>

\* ------------------------------------------------------------ probes
\* The config file as the probe meets it. `kind`: "absent" (existsSync false),
\* "unreadable" (readFileSync throws), "invalid" (JSON.parse throws), "null"
\* (the JSON text null), "number" (a JSON scalar) or "object". For an object,
\* `aiSources` and `permissions` are the values of those two members.
\*
\* A credential entry (aiSources.custom with its apiKey, aiSources[provider]
\* with its accessToken): not there, null, an object without the secret, with
\* the secret "", with a secret that is not a string, with a secret string.
CredentialEntries == {"undefined", "null", "empty", "blank", "number", "secret"}

\* aiSources.current: not there, a number, "", "custom", or a provider name
CurrentValues == {"undefined", "number", "", "custom", "oauth"}

NoAiSources(shape) ==
  [shape |-> shape, current |-> "undefined", custom |-> "undefined", provider |-> "undefined"]

AiSourcesValues ==
  {NoAiSources(shape) : shape \in {"undefined", "null", "string"}}
  \cup [shape : {"object"}, current : CurrentValues,
        custom : CredentialEntries, provider : CredentialEntries]

PermissionsValues == {"undefined", "null", "true", "object", "array"}

ConfigFiles ==
  {[kind |-> kind, aiSources |-> NoAiSources("undefined"), permissions |-> "undefined"] :
     kind \in {"absent", "unreadable", "invalid", "null", "number"}}
  \cup [kind : {"object"}, aiSources : AiSourcesValues, permissions : PermissionsValues]

\* a probe result; `caught` records that a catch block of the probe produced it
ProbeResult(name, healthy, severity, caught, data) ==
  [name |-> name, healthy |-> healthy, severity |-> severity, caught |-> caught,
   data |-> data]

ConfigData(fileExists, jsonValid, criticalFieldsPresent, apiKeyConfigured) ==
  [fileExists |-> fileExists, jsonValid |-> jsonValid,
   criticalFieldsPresent |-> criticalFieldsPresent, apiKeyConfigured |-> apiKeyConfigured]

\* `aiSources && typeof aiSources.current === 'string'`
hasAiSourcesCurrent(config) ==
  /\ config.aiSources.shape = "object"
  /\ config.aiSources.current \in {"", "custom", "oauth"}

\* `config.permissions && typeof config.permissions === 'object'`
hasPermissions(config) == config.permissions \in {"object", "array"}

\* `aiSources?.current`
currentSource(config) ==
  IF config.aiSources.shape = "object" THEN config.aiSources.current ELSE "undefined"

\* a mutant of apiKeyConfigured: an entry for the source is enough
apiKeyConfiguredAnyEntry(config) ==
  IF currentSource(config) = "custom"
  THEN config.aiSources.custom \notin {"undefined", "null"}
  ELSE IF currentSource(config) \in {"number", "oauth"}
  THEN config.aiSources.provider \notin {"undefined", "null"}
  ELSE FALSE

\* the credential check: apiKey of aiSources.custom, accessToken of the entry
\* of any other (truthy) current source
apiKeyConfigured(config) ==
  IF currentSource(config) = "custom"
  THEN config.aiSources.custom = "secret"
  ELSE IF currentSource(config) \in {"number", "oauth"}
  THEN config.aiSources.provider = "secret"
  ELSE FALSE

\* runConfigProbe()
runConfigProbe(config) ==
  IF config.kind = "absent"
  THEN ProbeResult("config", FALSE, "info", FALSE, ConfigData(FALSE, FALSE, FALSE, FALSE))
  ELSE IF config.kind \in {"unreadable", "invalid"}
  THEN ProbeResult("config", FALSE, "critical", FALSE, ConfigData(TRUE, FALSE, FALSE, FALSE))
  ELSE IF config.kind = "null"
  THEN \* `config.aiSources` of null raises a TypeError: the outer catch
       ProbeResult("config", FALSE, "critical", TRUE, ConfigData(TRUE, TRUE, FALSE, FALSE))
  ELSE LET criticalFieldsPresent == hasAiSourcesCurrent(config) /\ hasPermissions(config)
           healthy  == criticalFieldsPresent
           severity == IF ~healthy THEN "critical"
                       ELSE IF ~apiKeyConfigured(config) THEN "warning" ELSE "info"
       IN ProbeResult("config", healthy, severity, FALSE,
                      ConfigData(TRUE, TRUE, criticalFieldsPresent, apiKeyConfigured(config)))

\* the disk probe
MIN_FREE_SPACE_MB == 100
WARNING_FREE_SPACE_MB == 500
BytesPerMB == 1024 * 1024

\* what statfsSync gives: it throws, or block counts and a block size
BlockSizes == {512, 4096}
FreeBytes ==
  {0, 50 * BytesPerMB, 1000 * BytesPerMB}
  \cup {mb * BytesPerMB + d * 4096 : mb \in {MIN_FREE_SPACE_MB, WARNING_FREE_SPACE_MB},
                                     d \in {-1, 0, 1}}
  \cup {mb * BytesPerMB + d * 512 : mb \in {MIN_FREE_SPACE_MB, WARNING_FREE_SPACE_MB},
                                    d \in {-1, 0, 1}}
DiskStats ==
  {[readable |-> FALSE, bfree |-> 0, blocks |-> 0, bsize |-> 512]}
  \cup {[readable |-> TRUE, bfree |-> free \div bsize, blocks |-> total \div bsize,
         bsize |-> bsize] :
          free \in FreeBytes, total \in {1000 * BytesPerMB, 2000 * BytesPerMB},
          bsize \in BlockSizes}

\* getDiskSpace(path): null (here <<>>) when statfsSync throws
getDiskSpace(stats) ==
  IF stats.readable
  THEN <<[free |-> stats.bfree * stats.bsize, total |-> stats.blocks * stats.bsize]>>
  ELSE <<>>

DiskData(freeSpace, totalSpace) == [freeSpace |-> freeSpace, totalSpace |-> totalSpace]

\* `freeMB < limit` with freeMB = free / (1024 * 1024): the division by a power
\* of two is exact, so the comparison is the comparison of the byte counts
FreeMBBelow(free, limitMB) == free < limitMB * BytesPerMB

\* a mutant of DiskSeverity: the critical threshold is inclusive
DiskSeverityInclusive(free) ==
  IF free <= MIN_FREE_SPACE_MB * BytesPerMB THEN "critical"
  ELSE IF FreeMBBelow(free, WARNING_FREE_SPACE_MB) THEN "warning" ELSE "info"

DiskSeverity(free) ==
  IF FreeMBBelow(free, MIN_FREE_SPACE_MB) THEN "critical"
  ELSE IF FreeMBBelow(free, WARNING_FREE_SPACE_MB) THEN "warning" ELSE "info"

\* runDiskProbe()
runDiskProbe(stats) ==
  LET diskSpace == getDiskSpace(stats) IN
  IF diskSpace = <<>>
  THEN ProbeResult("disk", TRUE, "warning", TRUE, DiskData(0, 0))
  ELSE ProbeResult("disk", DiskSeverity(diskSpace[1].free) # "critical",
                   DiskSeverity(diskSpace[1].free), FALSE,
                   DiskData(diskSpace[1].free, diskSpace[1].total))

\* the port probe
HTTP_SERVER_PORT_START == 3847
HTTP_SERVER_PORT_END == 3866
HttpServerPorts == HTTP_SERVER_PORT_START..HTTP_SERVER_PORT_END

\* the ports that can be bound, and the port (0: none) at which creating the
\* test server raises
PortStates ==
  [available : {{}, {HTTP_SERVER_PORT_START}, {HTTP_SERVER_PORT_END}, HttpServerPorts,
                HttpServerPorts \ {HTTP_SERVER_PORT_START}},
   raisesAt : {0, HTTP_SERVER_PORT_START, HTTP_SERVER_PORT_START + 3}]

PortData(portsChecked, portsAvailable) ==
  [portsChecked |-> portsChecked, portsAvailable |-> portsAvailable]

\* runPortProbe(): the loop stops at the port where the check raises
runPortProbe(ports) ==
  LET portsToCheck   == IF ports.raisesAt = 0 THEN HttpServerPorts
                        ELSE HTTP_SERVER_PORT_START..ports.raisesAt
      portsAvailable == IF ports.raisesAt = 0 THEN ports.available
                        ELSE ports.available \cap (HTTP_SERVER_PORT_START..(ports.raisesAt - 1))
      hasAvailablePort == portsAvailable # {}
  IN IF ports.raisesAt # 0
     THEN ProbeResult("port", TRUE, "warning", TRUE, PortData(portsToCheck, portsAvailable))
     ELSE ProbeResult("port", hasAvailablePort,
                      IF hasAvailablePort THEN "info" ELSE "warning", FALSE,
                      PortData(portsToCheck, portsAvailable))

\* the service probe: what fetch() does, an HTTP status or an exception
FetchOutcomes ==
  {[status |-> status, raised |-> "none"] : status \in {200, 404, 499, 500, 503}}
  \cup {[status |-> 0, raised |-> raised] : raised \in {"AbortError", "TypeError"}}
Services == {"openai-router", "http-server"}

\* checkHttpEndpoint(url): `response.ok || response.status < 500`
checkHttpEndpoint(outcome) ==
  IF outcome.raised # "none"
  THEN [responsive |-> FALSE, caught |-> TRUE]
  ELSE [responsive |-> outcome.status < 500, caught |-> FALSE]

\* checkOpenAIRouter(port) and checkHttpServer(port)
checkService(service, outcome) ==
  LET result == checkHttpEndpoint(outcome) IN
  ProbeResult("service", result.responsive,
              IF result.responsive THEN "info"
              ELSE IF service = "openai-router" THEN "critical" ELSE "warning",
              result.caught, [serviceName |-> service])

\* the process probe.  cleanupOrphans() deals with each orphan entry in turn:
\* it terminates the process ("cleaned"), fails to ("failed") or finds nothing
\* to do ("skipped"); it may drop the entries it cleaned from the registry;
\* or it rejects.
CleanupOutcomes == [1..MaxProcs -> {"cleaned", "failed", "skipped"}]

CountOutcome(outcomes, n, outcome) ==
  Cardinality({i \in 1..n : outcomes[i] = outcome})

\* the result of cleanupOrphans() over n orphan entries
cleanupResult(outcomes, n) ==
  [cleaned |-> CountOutcome(outcomes, n, "cleaned"),
   failed  |-> CountOutcome(outcomes, n, "failed")]

\* the registry after cleanupOrphans() dropped the entries it cleaned
Swept(registry, outcomes) ==
  LET orphanIndexes == {i \in 1..Len(registry.processes) :
                          registry.processes[i].instanceId # currentInstanceId}
      rank(i) == Cardinality({j \in orphanIndexes : j <= i})
      kept(i) == i \notin orphanIndexes \/ outcomes[rank(i)] # "cleaned"
      keptIndexes == {i \in 1..Len(registry.processes) : kept(i)}
      RECURSIVE pick(_)
      pick(i) == IF i > Len(registry.processes) THEN <<>>
                 ELSE IF i \in keptIndexes THEN <<registry.processes[i]>> \o pick(i + 1)
                 ELSE pick(i + 1)
  IN [registry EXCEPT !.processes = pick(1)]

\* `orphansBefore.map(p => ({ pid: p.pid ?? 0, type: p.type, instanceId }))`
OrphansFound(orphans) ==
  [i \in 1..Len(orphans) |->
     [pid |-> orphans[i].pid, type |-> orphans[i].type,
      instanceId |-> orphans[i].instanceId]]

ProcessData(orphansFound, currentProcesses, zombiesKilled) ==
  [orphansFound |-> orphansFound, currentProcesses |-> currentProcesses,
   zombiesKilled |-> zombiesKilled]

\* a mutant of runProcessProbe: the severity follows what was cleaned
runProcessProbeSeverityOfCleaned(orphansBefore, currentProcesses, result, raises) ==
  IF raises
  THEN ProbeResult("process", TRUE, "warning", TRUE, ProcessData(<<>>, <<>>, 0))
  ELSE ProbeResult("process", result.failed = 0,
                   IF result.cleaned > 0 THEN "warning" ELSE "info", FALSE,
                   ProcessData(OrphansFound(orphansBefore), currentProcesses,
                               result.cleaned))

\* runProcessProbe(), from the two snapshots and the result of cleanupOrphans()
runProcessProbe(orphansBefore, currentProcesses, result, raises) ==
  IF raises
  THEN ProbeResult("process", TRUE, "warning", TRUE, ProcessData(<<>>, <<>>, 0))
  ELSE ProbeResult("process", result.failed = 0,
                   IF Len(orphansBefore) > 0 THEN "warning" ELSE "info", FALSE,
                   ProcessData(OrphansFound(orphansBefore), currentProcesses,
                               result.cleaned))

\* a probe ran: its result is what the caller holds
ProbeReturned(op, input, result) ==
  /\ ret' = [NoRet EXCEPT !.op = op, !.arg = input, !.bool = result.healthy,
                          !.msg = result.severity, !.data = result]
  /\ roundTrip' = NoTrip

RunConfigProbe(config) ==
  /\ ProbeReturned("runConfigProbe", config, runConfigProbe(config))
  /\ UNCHANGED <<regVars, envVars, minted, exitMark, prevExit, healthVars>>

RunDiskProbe(stats) ==
  /\ ProbeReturned("runDiskProbe", stats, runDiskProbe(stats))
  /\ UNCHANGED <<regVars, envVars, minted, exitMark, prevExit, healthVars>>

RunPortProbe(ports) ==
  /\ ProbeReturned("runPortProbe", ports, runPortProbe(ports))
  /\ UNCHANGED <<regVars, envVars, minted, exitMark, prevExit, healthVars>>

CheckService(service, outcome) ==
  /\ ProbeReturned("checkService", <<service, outcome>>, checkService(service, outcome))
  /\ UNCHANGED <<regVars, envVars, minted, exitMark, prevExit, healthVars>>

\* runProcessProbe(): the snapshots, then cleanupOrphans()
RunProcessProbe(outcomes, sweeps, raises) ==
  /\ phase = "running"
  /\ LET loaded        == loadRegistry
         orphansBefore == getOrphanProcesses
         result        == cleanupResult(outcomes, Len(orphansBefore))
     IN /\ ProbeReturned("runProcessProbe",
                         [cleaned |-> result.cleaned, failed |-> result.failed,
                          raises |-> raises],
                         runProcessProbe(orphansBefore, getCurrentProcesses, result, raises))
        /\ IF loaded # <<>> /\ sweeps /\ ~raises /\ result.cleaned > 0
           THEN /\ registryCache' = <<Swept(loaded[1], outcomes)>>
                /\ file' = saveRegistry(Swept(loaded[1], outcomes))
           ELSE /\ registryCache' = loaded
                /\ file' = file
  /\ UNCHANGED <<currentInstanceId, previousInstanceId, envVars, minted, exitMark, prevExit,
                 healthVars>>

\* ------------------------------------------------------------ specifications
\* the probes of the health checker, each on every input
NextProbes ==
  \/ MarkInstanceStart
  \/ \E config \in ConfigFiles : RunConfigProbe(config)
  \/ \E stats \in DiskStats : RunDiskProbe(stats)
  \/ \E ports \in PortStates : RunPortProbe(ports)
  \/ \E service \in Services, outcome \in FetchOutcomes : CheckService(service, outcome)
  \/ \E outcomes \in CleanupOutcomes, raises \in BOOLEAN :
       RunProcessProbe(outcomes, FALSE, raises)

SpecProbes == Init /\ [][NextProbes]_vars

\* the (id, type) pairs registered in the runs of the process probe
ProbeKeys == {<<"conv1", "v2-session">>, <<"conv1", "tunnel">>}

\* the process ends and the app is launched again
ProbeRelaunch ==
  /\ uuidCounter < MaxRecoveryLaunches
  /\ Relaunch(FALSE)

\* the process probe over the registries that launches and registrations leave
NextProcessProbe ==
  \/ MarkInstanceStart
  \/ \E k \in ProbeKeys, pid \in Pids \cup {NullPid} : RegisterProcess(k[1], k[2], pid)
  \/ \E outcomes \in CleanupOutcomes, sweeps \in BOOLEAN, raises \in BOOLEAN :
       RunProcessProbe(outcomes, sweeps, raises)
  \/ ProbeRelaunch

SpecProcessProbe == Init /\ [][NextProcessProbe]_vars

Next ==
  \/ MarkInstanceStart
  \/ \E k \in ProcKeys, pid \in Pids : RegisterProcess(k[1], k[2], pid)
  \/ \E k \in ProcKeys : UnregisterProcess(k[1], k[2])
  \/ \E k \in ProcKeys : UpdateHeartbeat(k[1], k[2])
  \/ GetCurrentProcesses
  \/ GetOrphanProcesses
  \/ GetRegistryStats
  \/ ClearOrphanEntries
  \/ MarkCleanExit
  \/ WasLastExitClean
  \/ \E torn \in BOOLEAN : Relaunch(torn)

\* the registry on a disk whose writes succeed
Spec == Init /\ [][Next]_vars

\* the registry on a disk whose reads and writes can fail
\* the (id, type) pair registered in the runs on a failing disk
FaultKeys == {<<"conv1", "v2-session">>}

\* the process ends and the app is launched again
FaultRelaunch(torn) ==
  /\ uuidCounter < MaxFaultLaunches
  /\ Relaunch(torn)

NextFaults ==
  \/ MarkInstanceStart
  \/ \E k \in FaultKeys, pid \in Pids : RegisterProcess(k[1], k[2], pid)
  \/ \E k \in FaultKeys : UnregisterProcess(k[1], k[2])
  \/ \E k \in FaultKeys : UpdateHeartbeat(k[1], k[2])
  \/ GetCurrentProcesses
  \/ GetOrphanProcesses
  \/ GetRegistryStats
  \/ ClearOrphanEntries
  \/ MarkCleanExit
  \/ WasLastExitClean
  \/ \E torn \in BOOLEAN : FaultRelaunch(torn)
  \/ WriteFault
  \/ ReadFault

SpecFaults == Init /\ [][NextFaults]_vars

\* the error counters and the clock
NextEvents ==
  \/ \E src \in Sources : TrackError(src)
  \/ \E src \in Sources : ResetErrorCounter(src)
  \/ \E d \in {COUNTER_RESET_MS, COUNTER_RESET_MS + TickMs} : Tick(d)

SpecEvents == Init /\ [][NextEvents]_vars

\* the calls made to executeRecovery: userConsented defaults to false and is
\* passed as true for the strategies that ask for consent
RecoveryCalls == {call \in StrategyIds \X BOOLEAN : call[2] => requiresConsent(call[1])}

\* the recovery executor of a running app
NextRecovery ==
  \/ MarkInstanceStart
  \/ \E pid \in Pids : SessionStarts(pid)
  \/ InjectSessionCleanup
  \/ \E call \in RecoveryCalls, fault \in Faults :
       ExecuteRecovery(call[1], call[2], fault)
  \/ RecoveryTick(RECOVERY_COOLDOWN_MS \div 2)
  \/ RelaunchTimerFires

SpecRecovery == Init /\ [][NextRecovery]_vars

\* the events of the runs that fill the buffer: many of one kind and, among
\* them, a few marked ones
FillerEvent == HealthEvent("process_exit", "info", "process")
MarkedEvent == HealthEvent("renderer_crash", "critical", "renderer")

Markers(events) == Cardinality({i \in 1..Len(events) : events[i] = MarkedEvent})

EmitFiller == EmitHealthEvent(FillerEvent.type, FillerEvent.category, FillerEvent.source)

EmitMarked ==
  /\ Markers(recentEvents) < MaxMarkers
  /\ EmitHealthEvent(MarkedEvent.type, MarkedEvent.category, MarkedEvent.source)

\* the recent-events buffer filled to its limit and beyond
NextBuffer ==
  \/ EmitFiller
  \/ EmitMarked
  \/ ClearRecentEvents

SpecBuffer == Init /\ [][NextBuffer]_vars

\* an event emitted to the handlers registered at the time
EmitToHandlers(event) ==
  /\ Len(recentEvents) < MaxEvents
  /\ EmitHealthEvent(event.type, event.category, event.source)

\* handlers coming and going while events are emitted
NextHandlers ==
  \/ \E h \in Handlers : OnHealthEvent(h)
  \/ \E h \in Handlers : Unsubscribe(h)
  \/ \E event \in {FillerEvent, MarkedEvent} : EmitToHandlers(event)
  \/ ClearRecentEvents

SpecHandlers == Init /\ [][NextHandlers]_vars

\* an event emitted while some of the handlers leave
EmitToLeavers(event, leavers) ==
  /\ Len(recentEvents) < MaxEvents
  /\ EmitWhileUnsubscribing(event.type, event.category, event.source, leavers)

\* handlers that unsubscribe from inside their own invocation
NextDispatch ==
  \/ \E h \in Handlers : OnHealthEvent(h)
  \/ \E h \in Handlers : Unsubscribe(h)
  \/ \E leavers \in SUBSET Handlers : EmitToLeavers(FillerEvent, leavers)
  \/ ClearRecentEvents

SpecDispatch == Init /\ [][NextDispatch]_vars

\* an agent error emitted while the buffer of the run has room
AgentErrorEmitted(conversationId) ==
  /\ Len(recentEvents) < MaxEvents
  /\ EmitAgentError(conversationId)

\* agent errors of two conversations over time
NextAgent ==
  \/ \E c \in ConversationIds : AgentErrorEmitted(c)
  \/ \E src \in Sources : TrackError(src)
  \/ \E src \in Sources : ResetErrorCounter(src)
  \/ ClearRecentEvents
  \/ \E d \in {COUNTER_RESET_MS, COUNTER_RESET_MS + TickMs} : Tick(d)

SpecAgent == Init /\ [][NextAgent]_vars

\* agent errors tracked and the agent engine reset, with and without consent
NextReset ==
  \/ MarkInstanceStart
  \/ InjectSessionCleanup
  \/ \E c \in ConversationIds : AgentErrorEmitted(c)
  \/ \E consented \in BOOLEAN, fault \in Faults : ExecuteRecovery("S2", consented, fault)
  \/ ClearRecentEvents

SpecReset == Init /\ [][NextReset]_vars

\* errors counted before and after recoveries of every strategy
NextCounters ==
  \/ MarkInstanceStart
  \/ \E c \in ConversationIds : AgentErrorEmitted(c)
  \/ \E src \in Sources : TrackError(src)
  \/ \E id \in StrategyIds : ExecuteRecovery(id, TRUE, "none")
  \/ ClearRecentEvents

SpecCounters == Init /\ [][NextCounters]_vars

\* the consented restart and factory reset on a disk whose writes can fail
NextRestart ==
  \/ MarkInstanceStart
  \/ \E pid \in Pids : SessionStarts(pid)
  \/ InjectSessionCleanup
  \/ \E id \in {"S3", "S4"}, fault \in Faults : ExecuteRecovery(id, TRUE, fault)
  \/ WriteFault
  \/ RelaunchTimerFires

SpecRestart == Init /\ [][NextRestart]_vars

\* recoveries asked for through the dialogs
NextDialog ==
  \/ MarkInstanceStart
  \/ \E id \in {"S3", "S4"}, response \in Responses, checkboxChecked \in BOOLEAN :
       ExecuteRecoveryWithUI(id, [n \in 1..MaxEntries |-> response], checkboxChecked, "none")
  \/ SuppressAllDialogs
  \/ ResetDialogSuppression
  \/ ClearRecentEvents
  \/ RecoveryTick(RECOVERY_COOLDOWN_MS \div 2)
  \/ RelaunchTimerFires

SpecDialog == Init /\ [][NextDialog]_vars

\* the recovery dialog asked for over time, with suppression set and reset
NextCooldown ==
  \/ MarkInstanceStart
  \/ \E id \in StrategyIds, response \in Responses, checkboxChecked \in BOOLEAN :
       ShowRecoveryDialog(id, response, checkboxChecked)
  \/ SuppressAllDialogs
  \/ ResetDialogSuppression
  \/ RecoveryTick(DIALOG_COOLDOWN_MS \div 2)

SpecCooldown == Init /\ [][NextCooldown]_vars

\* the answers to the dialogs of the entries of one executeRecoveryWithUI call
ResponseSeqs == [1..MaxEntries -> Responses]

\* every strategy asked for through executeRecoveryWithUI, every dialog
\* answered in every way
NextReentry ==
  \/ MarkInstanceStart
  \/ \E id \in StrategyIds, responses \in ResponseSeqs, checkboxChecked \in BOOLEAN :
       ExecuteRecoveryWithUI(id, responses, checkboxChecked, "none")
  \/ SuppressAllDialogs
  \/ ResetDialogSuppression

SpecReentry == Init /\ [][NextReentry]_vars

\* every strategy asked for through executeRecoveryWithUI, succeeding, failing
\* in its body and refused by the rate limit
NextNotice ==
  \/ MarkInstanceStart
  \/ \E id \in StrategyIds, response \in Responses, fault \in {"none", "cleanup"} :
       ExecuteRecoveryWithUI(id, [n \in 1..MaxEntries |-> response], FALSE, fault)
  \/ ClearRecentEvents
  \/ RelaunchTimerFires

SpecNotice == Init /\ [][NextNotice]_vars

\* every strategy with every step of its body failing
NextBodyFaults ==
  \/ MarkInstanceStart
  \/ \E pid \in Pids : SessionStarts(pid)
  \/ InjectSessionCleanup
  \/ \E id \in StrategyIds, fault \in Faults \cup {"clear"} : ExecuteRecovery(id, TRUE, fault)
  \/ ClearRecentEvents
  \/ RelaunchTimerFires

SpecBodyFaults == Init /\ [][NextBodyFaults]_vars

\* recoveries of every strategy, with and without consent, on a clock of 10 s
NextWindow ==
  \/ MarkInstanceStart
  \/ \E call \in RecoveryCalls : ExecuteRecovery(call[1], call[2], "none")
  \/ CanRecover
  \/ ClearRecentEvents
  \/ RecoveryTick(TickMs)
  \/ RelaunchTimerFires

SpecWindow == Init /\ [][NextWindow]_vars

\* the strategy selector applied to every count and source
NextSelect ==
  \E errorCount \in 0..MaxCount, source \in SelectSources :
    SelectRecoveryStrategy(errorCount, source)

SpecSelect == Init /\ [][NextSelect]_vars

\* ------------------------------------------------------------ properties
\* the process list callers see: loadRegistry()?.processes ?? []
ProcessList == IF loadRegistry = <<>> THEN <<>> ELSE loadRegistry[1].processes

KeyIn(procs, key) == \E p \in Range(procs) : <<p.id, p.type>> = key

\* C1: every markInstanceStart() call returns an instanceId that differs from
\* the instanceId returned by every earlier call, across any number of launches.
C1_DistinctInstanceIds ==
  \A i, j \in 1..Len(minted) : i # j => minted[i] # minted[j]

C1_Witness == Len(minted) >= 3

\* C2: immediately after markInstanceStart() on a registry file that holds
\* process entries, getOrphanProcesses() returns exactly the entries that were
\* in the file before the call and getCurrentProcesses() returns [].
C2_OrphansAfterStart ==
  [][ (MarkInstanceStart /\ file.kind = "json" /\ file.reg[1].processes # <<>>)
      => /\ getOrphanProcesses' = file.reg[1].processes
         /\ getCurrentProcesses' = <<>> ]_vars

\* a start that finds entries of two different earlier runs
C2_Witness ==
  /\ ret.op = "markInstanceStart"
  /\ getCurrentProcesses = <<>>
  /\ \E p, q \in Range(getOrphanProcesses) : p.instanceId # q.instanceId

\* C3: wasLastExitClean() called at the beginning of a launch, before that
\* launch's markInstanceStart(), returns true if the previous run called
\* markCleanExit() or if there is no registry file or it does not parse, and
\* false if the previous run started and ended without markCleanExit().
C3_LastExitClean ==
  (phase = "boot" /\ ret.op = "wasLastExitClean")
    => (ret.bool <=> (prevExit = "clean" \/ file.kind # "json"))

\* the launch after a crash: the flag read is the false markInstanceStart wrote
C3_Witness ==
  /\ phase = "boot" /\ ret.op = "wasLastExitClean"
  /\ prevExit = "started" /\ file.kind = "json" /\ ret.bool = FALSE

\* C4 as claimed: registerProcess(entry) followed by unregisterProcess(entry.id,
\* entry.type) leaves the process list with the same set of entries as before
\* the registerProcess call, in every registry state.
C4_RoundTripAnyState ==
  roundTrip.stage = "done" => Range(ProcessList) = Range(roundTrip.before)

\* C4 as amended: the same, provided no entry with that (id, type) was in the
\* list before the registerProcess call.
C4_RoundTripNewKey ==
  (roundTrip.stage = "done" /\ ~KeyIn(roundTrip.before, roundTrip.key))
    => Range(ProcessList) = Range(roundTrip.before)

C4_Witness ==
  /\ roundTrip.stage = "done"
  /\ ~KeyIn(roundTrip.before, roundTrip.key)
  /\ roundTrip.before # <<>>

\* C9: markInstanceStart() on a missing or unparseable registry file creates
\* and persists a registry with processes = [], previousInstanceId undefined
\* and lastCleanExit = false, and returns normally.
C9_FreshRegistry ==
  [][ (MarkInstanceStart /\ file.kind # "json")
      => /\ file'.kind = "json"
         /\ file'.reg[1].processes = <<>>
         /\ file'.reg[1].previousInstanceId = UndefinedInstanceId
         /\ file'.reg[1].lastCleanExit = FALSE
         /\ file'.reg[1].instanceId = ret'.id
         /\ registryCache' = file'.reg
         /\ ret'.threw = FALSE ]_vars

\* a later launch that found the file torn
C9_Witness ==
  /\ ret.op = "markInstanceStart" /\ ~ret.threw
  /\ uuidCounter >= 2
  /\ file.kind = "json"
  /\ file.reg[1].processes = <<>>
  /\ file.reg[1].previousInstanceId = UndefinedInstanceId

\* C10: after any sequence of registry calls across restarts, starting from an
\* absent registry, the process list (in memory and on disk) holds at most one
\* entry for each (id, type) pair.
C10_OneEntryPerKey ==
  \A reg \in Range(registryCache) \cup Range(file.reg) :
    \A i, j \in 1..Len(reg.processes) :
      (reg.processes[i].id = reg.processes[j].id /\
       reg.processes[i].type = reg.processes[j].type) => i = j

\* an (id, type) registered again in a later run, over the orphan that held it
C10_Witness ==
  /\ roundTrip.stage = "registered"
  /\ \E p \in Range(roundTrip.before) :
       <<p.id, p.type>> = roundTrip.key /\ p.instanceId # currentInstanceId
  /\ Len(ProcessList) = 2

\* the number of trackError calls at the end of `log` that each came no more
\* than 60 000 ms after the call before it
RECURSIVE Streak(_)
Streak(log) ==
  IF Len(log) <= 1 THEN Len(log)
  ELSE IF log[Len(log)] - log[Len(log) - 1] <= 60000
       THEN 1 + Streak(SubSeq(log, 1, Len(log) - 1))
       ELSE 1

\* C7: for a source with no counter, N consecutive trackError(source) calls,
\* each no more than 60 000 ms after the previous one, return 1, 2, ..., N; a
\* call made more than 60 000 ms after the previous call for that source
\* returns 1 and restarts the count.
C7_TrackErrorCounts ==
  ret.op = "trackError" => ret.num = Streak(trackLog[ret.arg[1]])

\* two calls exactly 60 000 ms apart counted 1, 2; the third, later than that,
\* counted 1 again
C7_Witness ==
  /\ ret.op = "trackError" /\ ret.num = 1
  /\ LET log == trackLog[ret.arg[1]]
     IN /\ Len(log) = 3
        /\ log[2] - log[1] = 60000
        /\ log[3] - log[2] > 60000

\* C8: selectRecoveryStrategy(count, source) returns 'S3' exactly when
\* count >= 5, whatever the source; 'S2' exactly when 3 <= count < 5 and the
\* source contains 'agent' or 'session'; null in every other case; never S1 or S4.
C8_StrategySelection ==
  ret.op = "selectRecoveryStrategy" =>
    LET count    == ret.num
        inAgent  == Includes(ret.arg, StrAgent) \/ Includes(ret.arg, StrSession)
    IN /\ (ret.msg = "S3") <=> (count >= 5)
       /\ (ret.msg = "S2") <=> (count >= 3 /\ count < 5 /\ inAgent)
       /\ (ret.msg = "null") <=> (count < 3 \/ (count < 5 /\ ~inAgent))
       /\ ret.msg \in {"S2", "S3", "null"}

\* count 5 with source "agent:conv1" gave S3
C8_Witness ==
  /\ ret.op = "selectRecoveryStrategy" /\ ret.num = 5
  /\ ret.arg = StrAgent \o <<":", "c", "o", "n", "v", "1">>
  /\ ret.msg = "S3"

\* the last three admitted attempts came less than 30 s one after the other
\* and the last of them is less than 30 s ago
CapReached ==
  /\ Len(admitLog) = 3
  /\ admitLog[2] - admitLog[1] < 30000
  /\ admitLog[3] - admitLog[2] < 30000
  /\ now - admitLog[3] < 30000

\* a step of the recovery runs that is the call executeRecovery(id, consented):
\* the only other step that leaves `ret` alone moves the clock
ExecuteRecoveryCall(id, consented) ==
  /\ ret'.op = "executeRecovery" /\ ret'.arg = <<id, consented>>
  /\ now' = now

\* an executeRecovery call that ran no part of a strategy body
BodyNotRun ==
  /\ bodyLog' = <<>>
  /\ UNCHANGED <<file, registryCache, recentEvents, errorCounters, relaunchTimer,
                 lastRecoveryTime>>

\* C5: when executeRecovery is called with consent satisfied, each call less
\* than 30 s after the previous admitted attempt, the first three calls run
\* their strategy and the call exceeding the cap of 3 returns {success:false,
\* message:'Recovery rate limit exceeded'} without running the strategy body:
\* no session cleanup, no orphan cleanup, no registry change, no
\* recovery_success event.
C5_RateLimit ==
  [][ \A call \in RecoveryCalls :
        (ExecuteRecoveryCall(call[1], call[2]) /\ (requiresConsent(call[1]) => call[2]))
          => IF CapReached
             THEN /\ ret'.bool = FALSE /\ ret'.msg = "Recovery rate limit exceeded"
                  /\ BodyNotRun
             ELSE /\ bodyLog' # <<>>
                  /\ ret'.msg # "Recovery rate limit exceeded" ]_vars

\* the fourth call of a burst was turned away after recovery events of the
\* first three
C5_Witness ==
  /\ ret.op = "executeRecovery" /\ ret.msg = "Recovery rate limit exceeded"
  /\ Len(admitLog) = 3 /\ now - admitLog[1] < 30000
  /\ Len(recentEvents) = 2

\* C6 as claimed: executeRecovery('S3', false) and executeRecovery('S4', false)
\* return 'User consent required' in every state, and executeRecovery('S3',
\* true) attempts the S3 strategy body.
C6_ConsentThenBody ==
  [][ /\ \A id \in {"S3", "S4"} :
           ExecuteRecoveryCall(id, FALSE)
             => ret'.bool = FALSE /\ ret'.msg = "User consent required" /\ BodyNotRun
      /\ ExecuteRecoveryCall("S3", TRUE)
           => bodyLog' # <<>> /\ bodyLog'[1] = "markCleanExit" ]_vars

\* C6: executeRecovery('S3', false) and executeRecovery('S4', false) return
\* 'User consent required' in every state; executeRecovery('S3', true)
\* attempts the S3 strategy body unless the rate limit turns the call away.
C6_ConsentThenBodyUnlessLimited ==
  [][ /\ \A id \in {"S3", "S4"} :
           ExecuteRecoveryCall(id, FALSE)
             => ret'.bool = FALSE /\ ret'.msg = "User consent required" /\ BodyNotRun
      /\ ExecuteRecoveryCall("S3", TRUE)
           => IF CapReached
                THEN ret'.msg = "Recovery rate limit exceeded" /\ BodyNotRun
                ELSE bodyLog' # <<>> /\ bodyLog'[1] = "markCleanExit" ]_vars

\* a consented S3 ran its body
C6_Witness ==
  /\ ret.op = "executeRecovery" /\ ret.arg = <<"S3", TRUE>>
  /\ bodyLog # <<>> /\ bodyLog[1] = "markCleanExit"
  /\ exitMark = "clean"

\* C11 as claimed: no registry operation raises an error to its caller when a
\* file-system step (existence check, read, parse, directory creation, write)
\* fails; each logs and returns its default instead.
C11_NeverThrows == ret.threw = FALSE

\* C12: after every mutating registry operation whose file write succeeds, the
\* registry document on disk is equal to the in-memory registry cache
\* (operations run one at a time).  A step that leaves a new parseable file
\* is a successful write.
C12_DiskEqualsCache ==
  [][ (file' # file /\ file'.kind = "json")
        => registryCache' = file'.reg ]_vars

\* markCleanExit() wrote a registry that holds an entry, on a disk that was
\* read-only at some time in this launch or the one before
C12_Witness ==
  /\ diskWritable /\ file.kind = "json" /\ registryCache = file.reg
  /\ registryCache[1].lastCleanExit
  /\ registryCache[1].processes # <<>>
  /\ exitMark = "clean"
  /\ registryCache[1].instanceId # currentInstanceId

\* the instanceId minted by the launch before the one that is starting
MintedByLastLaunch == minted[Len(minted)]

\* C13 as claimed: for two consecutive launches, getPreviousInstanceId() after
\* the second markInstanceStart() equals the instanceId minted by the first
\* launch, and the registry persisted by the second launch carries that value
\* in its previousInstanceId field.
C13_PreviousIdAlways ==
  [][ (MarkInstanceStart /\ minted # <<>>)
        => /\ previousInstanceId' = MintedByLastLaunch
           /\ file'.reg[1].previousInstanceId = MintedByLastLaunch ]_vars

\* C13: for two consecutive launches, when the registry file written by the
\* first launch still parses at the start of the second, getPreviousInstanceId()
\* after the second markInstanceStart() equals the instanceId minted by the
\* first launch and the registry persisted by the second launch carries that
\* value in its previousInstanceId field; when the file does not parse, both
\* are undefined.
C13_PreviousIdWhenReadable ==
  [][ (MarkInstanceStart /\ minted # <<>>)
        => LET expected == IF file.kind = "json" THEN MintedByLastLaunch
                           ELSE UndefinedInstanceId
           IN /\ previousInstanceId' = expected
              /\ file'.reg[1].previousInstanceId = expected ]_vars

\* the third launch knows the second, and its file says so
C13_Witness ==
  /\ ret.op = "markInstanceStart" /\ Len(minted) = 3
  /\ previousInstanceId = minted[2]
  /\ file.kind = "json" /\ file.reg[1].previousInstanceId = minted[2]
  /\ file.reg[1].instanceId = minted[3]

\* the event passed to the emitHealthEvent call that `ret` records
EmittedEvent(r) == HealthEvent(r.arg[1], r.arg[2], r.arg[3])

Min(a, b) == IF a < b THEN a ELSE b

\* C14: getRecentEvents() never holds more than 50 events; an emitHealthEvent
\* call puts its event first and keeps behind it, in their order, the events
\* held before, all of them when fewer than 50 were held and all but the
\* oldest when 50 were held - so the buffer is always the most recently
\* emitted events, newest first.
C14_BufferKeepsNewest ==
  [][ ret'.op = "emitHealthEvent" =>
        LET before == getRecentEvents(recentEvents)
            after  == getRecentEvents(recentEvents')
        IN /\ Len(after) = Min(Len(before) + 1, 50)
           /\ after[1] = EmittedEvent(ret')
           /\ \A i \in 2..Len(after) : after[i] = before[i - 1] ]_vars

\* the buffer holds 50 events and the marked event, emitted 49 calls ago, is
\* the oldest of them
C14_Witness ==
  /\ ret.op = "emitHealthEvent"
  /\ Len(getRecentEvents(recentEvents)) = 50
  /\ recentEvents[50] = MarkedEvent
  /\ \A i \in 1..49 : recentEvents[i] = FillerEvent

\* C15: emitHealthEvent has recorded its event at the head of the buffer by the
\* time the handlers run, calls every registered handler once, in registration
\* order, also the handlers registered behind one that throws, and returns
\* normally.
C15_EveryHandlerInOrder ==
  [][ ret'.op = "emitHealthEvent" =>
        /\ recentEvents'[1] = EmittedEvent(ret')
        /\ Len(handlerLog') = Len(eventHandlers)
        /\ \A i \in 1..Len(eventHandlers) :
              /\ handlerLog'[i].handler = eventHandlers[i]
              /\ handlerLog'[i].event = EmittedEvent(ret')
              /\ handlerLog'[i].seen
        /\ ~ret'.threw ]_vars

\* three handlers were called, the first of them threw, the later ones were
\* called all the same and the call returned
C15_Witness ==
  /\ ret.op = "emitHealthEvent" /\ ~ret.threw
  /\ eventHandlers = <<"h2", "h1", "h3">>
  /\ Len(handlerLog) = 3
  /\ handlerLog[1].handler = "h2" /\ handlerLog[1].threw
  /\ handlerLog[2].handler = "h1" /\ handlerLog[3].handler = "h3"
  /\ handlerLog[3].seen

\* C16: the event emitAgentError(conversationId) emits has the type
\* agent_error and the source agent:<conversationId>, and its category is
\* critical exactly when the errors of that conversation, each no more than
\* 60 000 ms after the one before, have come to three or more; the errors of
\* other conversations are not counted.
C16_CriticalFromThird ==
  ret.op = "emitAgentError" =>
    LET source == AgentSource(ret.arg[1])
    IN recentEvents[1] =
         HealthEvent("agent_error",
                     IF Streak(trackLog[source]) >= 3 THEN "critical" ELSE "warning",
                     source)

\* the third error of conv1 was emitted as critical; the error of conv2 before
\* it, emitted when conv1 had two errors already, was a warning
C16_Witness ==
  /\ ret.op = "emitAgentError" /\ ret.arg = <<"conv1">>
  /\ recentEvents = <<HealthEvent("agent_error", "critical", "agent:conv1"),
                      HealthEvent("agent_error", "warning", "agent:conv2")>>
  /\ errorCounters["agent:conv1"].count = 3
  /\ errorCounters["agent:conv2"].count = 1

\* C17: executeRecovery('S2') is not refused for want of consent; when it
\* returns success its body has run, in this order, the session-cleanup
\* callback (when one is injected), cleanupOrphans(), the reset of the agent
\* error counter and the success event, and getErrorCount is 0 for every
\* agent:<conversation> source.
C17_AgentReset ==
  [][ \A consented \in BOOLEAN :
        ExecuteRecoveryCall("S2", consented) =>
          /\ ret'.msg # "User consent required"
          /\ ret'.bool =>
                /\ bodyLog' = (IF closeAllSessionsFn THEN <<"closeAllSessions">> ELSE <<>>)
                                \o <<"cleanupOrphans", "resetErrorCounter",
                                     "emitRecoverySuccess">>
                /\ \A c \in ConversationIds :
                      getErrorCount(errorCounters', AgentSource(c)) = 0 ]_vars

\* S2 succeeded without consent, with the callback injected, and the event
\* before its success event is the critical agent error of conv1, emitted when
\* the count of conv1 had come to three
C17_Witness ==
  /\ ret.op = "executeRecovery" /\ ret.arg = <<"S2", FALSE>> /\ ret.bool
  /\ bodyLog = <<"closeAllSessions", "cleanupOrphans", "resetErrorCounter",
                 "emitRecoverySuccess">>
  /\ getErrorCount(errorCounters, "agent:conv1") = 0
  /\ getErrorCount(errorCounters, "agent:conv2") = 0
  /\ recentEvents = <<RecoverySuccessEvent("S2"),
                      HealthEvent("agent_error", "critical", "agent:conv1")>>

\* the app exits and is launched again
AppRelaunches == phase = "running" /\ phase' = "boot"

\* the steps of a successful executeS3, in order
S3Steps ==
  <<"markCleanExit">> \o (IF closeAllSessionsFn THEN <<"closeAllSessions">> ELSE <<>>)
    \o <<"clearOrphanEntries", "emitRecoverySuccess", "setTimeout">>

\* the registry file holds lastCleanExit = true
CleanExitPersisted(f) == f.kind = "json" /\ f.reg[1].lastCleanExit

\* C18 as stated: a successful executeRecovery('S3', true) has run
\* markCleanExit(), the session-cleanup callback, clearOrphanEntries() and the
\* success event in this order, lastCleanExit = true is in the file when it
\* returns, the app is still running then, and the relaunch comes only from
\* the timer set last and writes nothing.
C18_RestartOrder ==
  [][ /\ (ExecuteRecoveryCall("S3", TRUE) /\ ret'.bool) =>
            /\ bodyLog' = S3Steps
            /\ CleanExitPersisted(file')
            /\ phase' = "running" /\ relaunchTimer'
      /\ AppRelaunches => (relaunchTimer /\ file' = file) ]_vars

\* C18, amended: the same, with lastCleanExit = true in the file whenever the
\* registry could be loaded and the disk took the write.
C18_RestartOrderWhenWritten ==
  [][ /\ (ExecuteRecoveryCall("S3", TRUE) /\ ret'.bool) =>
            /\ bodyLog' = S3Steps
            /\ (diskWritable /\ loadRegistry # <<>>) => CleanExitPersisted(file')
            /\ phase' = "running" /\ relaunchTimer'
      /\ AppRelaunches => (relaunchTimer /\ file' = file) ]_vars

\* the second launch, started by the relaunch of a first S3 that had marked
\* the exit clean, ran S3 with the callback injected: the flag is in the file,
\* the entry left by the first launch is gone and the timer is pending
C18_Witness ==
  /\ ret.op = "executeRecovery" /\ ret.arg = <<"S3", TRUE>> /\ ret.bool
  /\ bodyLog = <<"markCleanExit", "closeAllSessions", "clearOrphanEntries",
                 "emitRecoverySuccess", "setTimeout">>
  /\ uuidCounter = 2 /\ prevExit = "clean"
  /\ CleanExitPersisted(file) /\ file.reg[1].processes = <<>>
  /\ phase = "running" /\ relaunchTimer

\* C19: a successful executeRecovery('S4', true) has marked the exit clean,
\* called the session-cleanup callback and cleared the orphan entries before
\* it set the relaunch timer.
C19_FactoryResetTeardown ==
  [][ (ExecuteRecoveryCall("S4", TRUE) /\ ret'.bool) =>
        /\ Did(bodyLog', "markCleanExit")
        /\ closeAllSessionsFn => Did(bodyLog', "closeAllSessions")
        /\ Did(bodyLog', "clearOrphanEntries")
        /\ bodyLog'[Len(bodyLog')] = "setTimeout" ]_vars

\* a step that is a call of executeRecoveryWithUI
ExecuteRecoveryWithUICall == ret'.op = "executeRecoveryWithUI" /\ now' = now

\* the call ran (part of) the body of strategy `id`
BodyRan(id) == bodyLog' # <<>> /\ ret'.arg[1] = id

\* the call ran no strategy body and returned a failure
Refused == bodyLog' = <<>> /\ ~ret'.bool

\* the recovery dialog would not be shown: suppressed or on cooldown
DialogWithheld == suppressDialogs \/ now - lastDialogTime < DIALOG_COOLDOWN_MS

\* C20 as stated: through executeRecoveryWithUI the body of S3 runs only after
\* a dialog was presented and answered with restart, the body of S4 only
\* after a dialog was presented and answered with the confirmation; a call
\* for S3 or S4 made while dialogs are suppressed or on cooldown, or answered
\* with ignore or cancel, runs no body and returns a failure.
C20_DialogGate ==
  [][ ExecuteRecoveryWithUICall =>
        /\ BodyRan("S3") => (uiLog'.presented /\ uiLog'.answer = "restart")
        /\ BodyRan("S4") => (uiLog'.presented /\ uiLog'.answer = "confirm")
        /\ ( /\ uiLog'.requested \in {"S3", "S4"}
             /\ DialogWithheld \/ uiLog'.answer \in {"ignore", "cancel"} ) => Refused ]_vars

\* C20, amended: the same for the bodies that run; a call for S3 made while
\* dialogs are suppressed or on cooldown, or answered with ignore, and a call
\* for S4 whose confirmation, asked whatever the suppression and the cooldown,
\* was not given, run no body and return a failure.
C20_DialogGateS4AlwaysAsks ==
  [][ ExecuteRecoveryWithUICall =>
        /\ BodyRan("S3") => (uiLog'.presented /\ uiLog'.answer = "restart")
        /\ BodyRan("S4") => (uiLog'.presented /\ uiLog'.answer = "confirm")
        /\ ( /\ uiLog'.requested = "S3"
             /\ DialogWithheld \/ uiLog'.answer = "ignore" ) => Refused
        /\ (uiLog'.requested = "S4" /\ uiLog'.answer # "confirm") => Refused ]_vars

\* with dialogs suppressed, the factory reset was asked for, confirmed in its
\* dialog and run
C20_Witness ==
  /\ ret.op = "executeRecoveryWithUI" /\ ret.arg = <<"S4", TRUE>> /\ ret.bool
  /\ suppressDialogs
  /\ uiLog = [requested |-> "S4", presented |-> TRUE, answer |-> "confirm"]
  /\ bodyLog # <<>> /\ relaunchTimer

\* C21: a call of executeRecoveryWithUI enters the function at most twice,
\* whatever the user answers to each dialog; when it has entered it a second
\* time, with the strategy the user picked, it goes on to executeRecovery with
\* that strategy and asks nothing more.
C21_OneReselection ==
  [][ ExecuteRecoveryWithUICall =>
        /\ Len(uiEntries') \in {1, 2}
        /\ Len(uiEntries') = 2 =>
              /\ uiEntries'[2] # uiEntries'[1]
              /\ ret'.arg = <<uiEntries'[2], TRUE>>
              /\ uiLog'.answer = "tryFix" ]_vars

\* asked to restart, the user chose to try a fix: S2 was entered and executed
C21_Witness ==
  /\ ret.op = "executeRecoveryWithUI" /\ ret.arg = <<"S2", TRUE>> /\ ret.bool
  /\ uiEntries = <<"S3", "S2">>
  /\ uiLog = [requested |-> "S3", presented |-> TRUE, answer |-> "tryFix"]
  /\ bodyLog = <<"cleanupOrphans", "resetErrorCounter", "emitRecoverySuccess">>

\* the call went on to executeRecovery(id, true)
ExecutedThroughUI(id) == ExecuteRecoveryWithUICall /\ ret'.arg = <<id, TRUE>>

\* C22 as stated: after executeRecovery(id, true), executeRecoveryWithUI shows
\* the success notification for a success and the failure notification for a
\* failure when id is S1 or S2, and no notification when id is S3 or S4.
C22_ResultNotice ==
  [][ \A id \in StrategyIds :
        ExecutedThroughUI(id) =>
          uiNotice' = IF id \in {"S3", "S4"} THEN "none"
                      ELSE IF ret'.bool THEN "success" ELSE "failed" ]_vars

\* C22, amended: the failure notification is shown for a failure of any
\* strategy, S3 and S4 included; the success notification is shown for a
\* success of S1 or S2 and none for a success of S3 or S4.
C22_ResultNoticeFailuresAlways ==
  [][ \A id \in StrategyIds :
        ExecutedThroughUI(id) =>
          uiNotice' = IF ~ret'.bool THEN "failed"
                      ELSE IF id \in {"S3", "S4"} THEN "none" ELSE "success" ]_vars

\* a restart the user had asked for was refused by the rate limit and the
\* failure notification was shown
C22_Witness ==
  /\ ret.op = "executeRecoveryWithUI" /\ ret.arg = <<"S3", TRUE>> /\ ~ret.bool
  /\ ret.msg = "Recovery rate limit exceeded"
  /\ uiLog.answer = "restart"
  /\ uiNotice = "failed"

\* some step of the strategy body raised
Raised(steps) ==
  \E i \in 1..Len(steps) :
    steps[i] \in {"!closeAllSessions", "!cleanupOrphans", "!clearOrphanEntries"}

\* a step that is a call of executeRecovery
AnyExecuteRecoveryCall == ret'.op = "executeRecovery" /\ now' = now

\* C23: executeRecovery returns normally for S1..S4; when a step of the
\* strategy body threw (the session-cleanup callback, cleanupOrphans() or
\* clearOrphanEntries()), the result is a failure with a message, the event
\* buffer is as before and no relaunch timer was set by the call.
C23_BodyFailSoft ==
  [][ AnyExecuteRecoveryCall =>
        /\ ~ret'.threw
        /\ Raised(bodyLog') =>
              /\ ~ret'.bool /\ ret'.msg \notin {"", "ok"}
              /\ recentEvents' = recentEvents
              /\ relaunchTimer' = relaunchTimer
              /\ ~Did(bodyLog', "emitRecoverySuccess") /\ ~Did(bodyLog', "setTimeout") ]_vars

\* S4, with the callback injected and run, failed in clearOrphanEntries(): a
\* failure was returned, nothing was emitted and no relaunch is pending
C23_Witness ==
  /\ ret.op = "executeRecovery" /\ ret.arg = <<"S4", TRUE>> /\ ~ret.bool /\ ~ret.threw
  /\ ret.msg = "Factory reset failed"
  /\ bodyLog = <<"closeAllSessions", "cleanupOrphans", "!clearOrphanEntries">>
  /\ recentEvents = <<>> /\ ~relaunchTimer

\* C24: an executeRecovery call turned away for missing consent leaves the
\* recent attempt count, the last recovery time, the error counters, the
\* registry (file and cache), the event buffer and the relaunch timer as they
\* were; and a consented call is turned away by the rate limit only when three
\* admitted attempts precede it inside the cooldown, rejected calls not counted.
C24_ConsentRejectionFrame ==
  [][ /\ \A id \in {"S3", "S4"} :
           ExecuteRecoveryCall(id, FALSE)
             => /\ ret'.msg = "User consent required"
                /\ UNCHANGED <<recentRecoveryAttempts, lastRecoveryTime, errorCounters,
                               file, registryCache, recentEvents, relaunchTimer,
                               admitLog>>
      /\ (AnyExecuteRecoveryCall /\ ret'.msg = "Recovery rate limit exceeded")
           => CapReached ]_vars

\* S4 was refused for missing consent with three attempts counted inside the
\* cooldown: one more counted attempt would exceed the cap
C24_Witness ==
  /\ ret.op = "executeRecovery" /\ ret.arg = <<"S4", FALSE>>
  /\ ret.msg = "User consent required"
  /\ recentRecoveryAttempts = MAX_RECOVERY_ATTEMPTS
  /\ now - lastRecoveryTime < RECOVERY_COOLDOWN_MS
  /\ Len(admitLog) = 3

ProbeOps == {"runConfigProbe", "runDiskProbe", "runPortProbe", "runProcessProbe",
             "checkService"}

\* C25 as claimed: every probe (config, disk, port, process, service) that hits
\* an internal error while performing its check returns healthy = true with
\* severity warning, and does not throw or report unhealthy.
C25_FailOpen ==
  (ret.op \in ProbeOps /\ ret.data.caught)
    => ret.data.healthy /\ ret.data.severity = "warning" /\ ~ret.threw

\* the config file as the claim describes it
ConfigFieldsMissing(config) ==
  \/ config.kind \in {"null", "number"}
  \/ config.kind = "object"
       /\ \/ config.aiSources.shape \in {"undefined", "null"}
          \/ config.aiSources.shape = "object" /\ config.aiSources.current = "undefined"
          \/ config.permissions = "undefined"
ConfigFieldsPresent(config) ==
  /\ config.kind = "object"
  /\ config.aiSources.shape = "object"
  /\ config.aiSources.current \in {"", "custom", "oauth"}
  /\ config.permissions \in {"object", "array"}
ConfigCredentialUsable(config) ==
  \/ config.aiSources.current = "custom" /\ config.aiSources.custom = "secret"
  \/ config.aiSources.current = "oauth" /\ config.aiSources.provider = "secret"

\* C26: runConfigProbe reports severity info for a missing file; severity
\* critical and healthy = false for a file that is not valid JSON or lacks
\* aiSources.current or permissions; criticalFieldsPresent = true,
\* apiKeyConfigured = false, healthy = true and severity warning when the
\* required fields are there and the current source has no usable credential;
\* severity info when everything is there.
C26_ConfigClassification ==
  ret.op = "runConfigProbe" =>
    LET config == ret.arg
        result == ret.data
    IN /\ config.kind = "absent" => result.severity = "info"
       /\ (config.kind \in {"unreadable", "invalid"} \/ ConfigFieldsMissing(config))
            => result.severity = "critical" /\ ~result.healthy
       /\ (ConfigFieldsPresent(config) /\ ~ConfigCredentialUsable(config))
            => /\ result.data.criticalFieldsPresent /\ ~result.data.apiKeyConfigured
               /\ result.healthy /\ result.severity = "warning"
       /\ (ConfigFieldsPresent(config) /\ ConfigCredentialUsable(config))
            => result.healthy /\ result.severity = "info"

\* the probe ran on {"aiSources":{"current":"custom"},"permissions":{}}
C26_Witness ==
  /\ ret.op = "runConfigProbe"
  /\ ret.arg = [kind |-> "object", permissions |-> "object",
                aiSources |-> [shape |-> "object", current |-> "custom",
                               custom |-> "undefined", provider |-> "undefined"]]
  /\ ret.data.data.criticalFieldsPresent /\ ~ret.data.data.apiKeyConfigured
  /\ ret.data.healthy /\ ret.data.severity = "warning"

\* C27: runDiskProbe reports healthy = false, and severity critical, exactly
\* when the free space is below 100 MB; healthy = true with severity warning
\* from 100 MB up to, not including, 500 MB; healthy = true with severity info
\* from 500 MB; and healthy = true with severity warning when the disk
\* statistics cannot be read.
C27_DiskThresholds ==
  ret.op = "runDiskProbe" =>
    LET stats  == ret.arg
        free   == stats.bfree * stats.bsize
        result == ret.data
    IN IF ~stats.readable
       THEN result.healthy /\ result.severity = "warning"
       ELSE /\ ~result.healthy <=> free < 100 * 1024 * 1024
            /\ result.severity = "critical" <=> free < 100 * 1024 * 1024
            /\ (free >= 100 * 1024 * 1024 /\ free < 500 * 1024 * 1024)
                 => result.healthy /\ result.severity = "warning"
            /\ free >= 500 * 1024 * 1024 => result.healthy /\ result.severity = "info"

\* the probe ran with exactly 100 MB free: healthy, with a warning
C27_Witness ==
  /\ ret.op = "runDiskProbe"
  /\ ret.arg.readable /\ ret.arg.bfree * ret.arg.bsize = 100 * 1024 * 1024
  /\ ret.data.healthy /\ ret.data.severity = "warning"
  /\ ret.data.data.freeSpace = 104857600

\* C28: runProcessProbe reports what getOrphanProcesses() and
\* getCurrentProcesses() gave before cleanupOrphans() ran: healthy exactly when
\* the cleanup result has failed = 0, severity warning exactly when there was
\* an orphan before the cleanup and info otherwise, orphansFound the orphans
\* of before the cleanup, zombiesKilled the cleaned count.
C28_SnapshotBeforeCleanup ==
  [][ (ret'.op = "runProcessProbe" /\ ~ret'.arg.raises) =>
        LET result == ret'.data IN
        /\ result.healthy <=> ret'.arg.failed = 0
        /\ result.severity = IF Len(getOrphanProcesses) >= 1 THEN "warning" ELSE "info"
        /\ Len(result.data.orphansFound) = Len(getOrphanProcesses)
        /\ \A i \in 1..Len(getOrphanProcesses) :
             /\ result.data.orphansFound[i].pid = getOrphanProcesses[i].pid
             /\ result.data.orphansFound[i].type = getOrphanProcesses[i].type
             /\ result.data.orphansFound[i].instanceId = getOrphanProcesses[i].instanceId
        /\ result.data.currentProcesses = getCurrentProcesses
        /\ result.data.zombiesKilled = ret'.arg.cleaned ]_vars

\* the probe found an orphan that the cleanup then removed from the registry
C28_Witness ==
  /\ ret.op = "runProcessProbe" /\ ~ret.arg.raises
  /\ Len(ret.data.data.orphansFound) = 1 /\ ret.data.data.zombiesKilled = 1
  /\ ret.data.healthy /\ ret.data.severity = "warning"
  /\ getOrphanProcesses = <<>>
  /\ file.kind = "json" /\ file.reg[1].processes = <<>>

\* C29: wasLastExitClean() called after markInstanceStart() has written the
\* registry in the same launch returns true, whether the previous run called
\* markCleanExit() or ended without it.
C29_CleanAfterStart ==
  (ret.op = "wasLastExitClean" /\ phase = "running") => ret.bool

\* asked after the start of a launch that follows a run which never marked a
\* clean exit: the answer is true, and the file holds this launch's registry
C29_Witness ==
  /\ ret.op = "wasLastExitClean" /\ phase = "running" /\ ret.bool
  /\ prevExit = "started"
  /\ file.kind = "json" /\ file.reg[1].instanceId = currentInstanceId
  /\ ~file.reg[1].lastCleanExit

\* C30: when executeRecovery returns success, for any of S1..S4,
\* getTotalErrorCount() is 0 and trackError would return 1 for every source;
\* a trackError that follows the successful call returns 1.
C30_SuccessClearsCounters ==
  [][ /\ (AnyExecuteRecoveryCall /\ ret'.bool)
           => /\ getTotalErrorCount(errorCounters') = 0
              /\ \A src \in Sources : trackError(errorCounters'[src], now').count = 1
      /\ (ret.op = "executeRecovery" /\ ret.bool /\ ret'.op = "trackError")
           => ret'.num = 1 ]_vars

\* S1 succeeded after an agent error of conv1 had been counted and reported,
\* and the trackError for conv1 that followed returned 1
C30_Witness ==
  /\ ret.op = "trackError" /\ ret.arg = <<"agent:conv1">> /\ ret.num = 1
  /\ bodyLog = <<"emitRecoverySuccess">>
  /\ Len(recentEvents) = 2
  /\ recentEvents[1] = RecoverySuccessEvent("S1")
  /\ recentEvents[2].type = "agent_error" /\ recentEvents[2].source = "agent:conv1"
  /\ getTotalErrorCount(errorCounters) = 1

\* a step that is a call of showRecoveryDialog
ShowRecoveryDialogCall == ret'.op = "showRecoveryDialog" /\ now' = now

\* C31: showRecoveryDialog returns 'ignore' and presents nothing when dialogs
\* are suppressed or when less than 10 s have passed since the last dialog;
\* such a call leaves the time of the last dialog as it was.  Every presented
\* dialog stamps that time, which never goes back, and a checked box
\* suppresses; suppression ends only with resetDialogSuppression (or with the
\* process).
C31_SuppressionAndCooldown ==
  [][ /\ (ShowRecoveryDialogCall
           /\ (suppressDialogs \/ now - lastDialogTime < DIALOG_COOLDOWN_MS))
           => /\ ret'.msg = "ignore" /\ ~ret'.bool /\ ~uiLog'.presented
              /\ lastDialogTime' = lastDialogTime
              /\ suppressDialogs' = suppressDialogs
      /\ (ShowRecoveryDialogCall /\ ret'.bool)
           => /\ lastDialogTime' = now
              /\ ret'.arg[3] => suppressDialogs'
      /\ phase' # "boot" => lastDialogTime' >= lastDialogTime
      /\ (suppressDialogs /\ ~suppressDialogs')
           => ResetDialogSuppression \/ phase' = "boot" ]_vars

\* a dialog asked for 5 s after the last one was skipped, and the
\* time of the last dialog is still that of the earlier one
C31_Witness ==
  /\ ret.op = "showRecoveryDialog" /\ ~ret.bool /\ ret.msg = "ignore"
  /\ ~suppressDialogs
  /\ now - lastDialogTime = 5000
  /\ lastDialogTime > 0

\* C32 as claimed: registerProcess leaves the entries of other instances as
\* they are: getOrphanProcesses() returns the same entries before and after
\* every registerProcess call.
C32_OrphansKept ==
  [][ (roundTrip'.stage = "registered" /\ now' = now)
        => getOrphanProcesses' = getOrphanProcesses ]_vars

\* how often a handler is registered, and how often it was invoked
Registrations(handlers, handler) ==
  Cardinality({i \in 1..Len(handlers) : handlers[i] = handler})
Invocations(calls, handler) ==
  Cardinality({i \in 1..Len(calls) : calls[i].handler = handler})

\* C33 as claimed: for every emitted event, each handler that is subscribed
\* (once) when the emit starts and does not unsubscribe itself is invoked
\* exactly once, also when other handlers unsubscribe themselves while the
\* event is dispatched.
C33_EachHandlerOnce ==
  [][ ret'.op = "emitWhileUnsubscribing" =>
        \A h \in Handlers :
          (Registrations(eventHandlers, h) = 1 /\ h \notin ret'.data)
            => Invocations(handlerLog', h) = 1 ]_vars

\* an executeRecovery step that entered a strategy body
BodyEntered == AnyExecuteRecoveryCall /\ bodyLog' # <<>>

\* C34: no interval shorter than 30 s holds more than 3 strategy bodies: when
\* a body is entered with three bodies entered before it, the first of those
\* three lies 30 s or more back.
C34_ThreeBodiesPerWindow ==
  [][ (BodyEntered /\ Len(admitLog) = 3)
        => now - admitLog[1] >= 30000 ]_vars

\* three bodies were entered within 20 s and a further consented call, made
\* among consent rejections, was refused without entering a body
C34_Witness ==
  /\ ret.op = "executeRecovery" /\ ret.msg = "Recovery rate limit exceeded"
  /\ bodyLog = <<>>
  /\ Len(admitLog) = 3 /\ admitLog[1] < admitLog[3]
  /\ now - admitLog[1] = 20000

\* an executeRecovery step that returned the rate-limit failure
RateLimitedCall ==
  AnyExecuteRecoveryCall /\ ret'.msg = "Recovery rate limit exceeded"

\* C35 as claimed: executeRecovery returns 'Recovery rate limit exceeded' only
\* if at least 3 attempts were admitted within the 30 s preceding the call.
C35_ThreeInPrecedingWindow ==
  [][ RateLimitedCall
        => (Len(admitLog) = 3 /\ now - admitLog[1] <= 30000) ]_vars

\* C35, amended: executeRecovery returns 'Recovery rate limit exceeded' only
\* after a chain of at least 3 admitted attempts, each less than 30 s after
\* the one before it, the last of them less than 30 s before the call; a call
\* not preceded by such a chain is never rate-limited and, with consent
\* satisfied, enters its strategy body.
C35_ChainOfThree ==
  [][ /\ RateLimitedCall => (CapReached /\ recentRecoveryAttempts >= 3)
      /\ \A call \in RecoveryCalls :
           (/\ ExecuteRecoveryCall(call[1], call[2])
            /\ requiresConsent(call[1]) => call[2]
            /\ ~CapReached)
             => (bodyLog' # <<>> /\ admitLog'[Len(admitLog')] = now) ]_vars

\* a call was rate-limited 40 s after the first of three chained attempts and
\* 20 s after the last
C35_Witness ==
  /\ ret.op = "executeRecovery" /\ ret.msg = "Recovery rate limit exceeded"
  /\ Len(admitLog) = 3
  /\ now - admitLog[1] = 40000
  /\ now - admitLog[3] = 20000

C37_CanRecoverAgrees ==
  [][ /\ canRecover(now) <=> ~rateLimited(now)
      /\ (ret'.op = "canRecover" /\ now' = now)
           => (ret'.bool = canRecover(now) /\ UNCHANGED healthVars)
      /\ \A call \in RecoveryCalls :
           (/\ ExecuteRecoveryCall(call[1], call[2])
            /\ requiresConsent(call[1]) => call[2])
             => (canRecover(now) <=> ret'.msg # "Recovery rate limit exceeded") ]_vars

\* canRecover() answered false 10 s after the third attempt of a chain
C37_Witness ==
  /\ ret.op = "canRecover" /\ ~ret.bool
  /\ recentRecoveryAttempts = 3
  /\ now - lastRecoveryTime = 10000

\* how many times `step` occurs among `steps`
TimesDone(steps, step) == Cardinality({i \in 1..Len(steps) : steps[i] = step})

\* an executeRecovery step that returned success for S2, S3 or S4
SessionStrategySucceeded ==
  /\ AnyExecuteRecoveryCall
  /\ ret'.arg[1] \in {"S2", "S3", "S4"}
  /\ ret'.bool

\* C38 as claimed: whenever executeRecovery returns success for S2, S3 or S4
\* the session-cleanup callback was invoked exactly once during the execution,
\* also when no callback has been injected yet.
C38_CallbackOnce ==
  [][ SessionStrategySucceeded
        => TimesDone(bodyLog', "closeAllSessions") = 1 ]_vars

\* C38, amended: whenever executeRecovery returns success for S2, S3 or S4,
\* the session-cleanup callback was invoked exactly once and returned normally
\* if one had been injected before the call, and nothing was invoked in its
\* place if none had; the injection itself invokes nothing.
C38_CallbackOnceWhenInjected ==
  [][ /\ SessionStrategySucceeded
           => /\ TimesDone(bodyLog', "closeAllSessions")
                   = (IF closeAllSessionsFn THEN 1 ELSE 0)
              /\ TimesDone(bodyLog', "!closeAllSessions") = 0
      /\ (~closeAllSessionsFn /\ closeAllSessionsFn') => UNCHANGED bodyLog ]_vars

\* a factory reset succeeded with the callback injected and invoked
C38_Witness ==
  /\ ret.op = "executeRecovery" /\ ret.arg = <<"S4", TRUE>> /\ ret.bool
  /\ closeAllSessionsFn
  /\ bodyLog[1] = "closeAllSessions"
  /\ relaunchTimer

\* the lastCleanExit flag of a registry that may be missing
CleanExitFlag(reg) == IF reg = <<>> THEN <<>> ELSE <<reg[1].lastCleanExit>>

\* C39 as claimed: if executeRecovery('S3', true) returns a failure result,
\* the registry's lastCleanExit flag, in memory and on disk, has the value it
\* had before the call.
C39_FlagKeptOnFailure ==
  [][ (ExecuteRecoveryCall("S3", TRUE) /\ ~ret'.bool)
        => /\ CleanExitFlag(loadRegistry') = CleanExitFlag(loadRegistry)
           /\ CleanExitFlag(file'.reg) = CleanExitFlag(file.reg) ]_vars

\* a step of one of the mutating registry operations
MutatingRegistryCall ==
  \/ \E k \in FaultKeys, pid \in Pids : RegisterProcess(k[1], k[2], pid)
  \/ \E k \in FaultKeys : UnregisterProcess(k[1], k[2])
  \/ \E k \in FaultKeys : UpdateHeartbeat(k[1], k[2])
  \/ ClearOrphanEntries
  \/ MarkCleanExit

\* C40 as claimed: when the file write of registerProcess, unregisterProcess,
\* updateHeartbeat, clearOrphanEntries or markCleanExit fails, the operation
\* has no effect on the registry seen by callers: getCurrentProcesses(),
\* getOrphanProcesses() and getRegistryStats() return what they returned
\* before the call.
C40_FailedWriteNoEffect ==
  [][ (MutatingRegistryCall /\ ~diskWritable)
        => /\ getCurrentProcesses' = getCurrentProcesses
           /\ getOrphanProcesses' = getOrphanProcesses
           /\ getRegistryStats' = getRegistryStats ]_vars

====
